---------------------------- MODULE Spec2Model ----------------------------
(***************************************************************************)
(* Model of master_terrasses.py: the terrace detection pipeline            *)
(* (slope, break mask, vectorisation, dashboard, classification).          *)
(*                                                                         *)
(* Number representation.  The program computes in floating point; the     *)
(* model computes in fixed point on integers:                              *)
(*   - elevations and elevation differences are in millimetres;            *)
(*   - the compactness score gc_score and the sliver ratio carry three     *)
(*     decimals (value * 1000, truncated);                                 *)
(*   - a value stored with round(v, 2) is in hundredths, rounded half to   *)
(*     even from the three-decimal value.                                  *)
(* Coordinates, perimeters and areas are integers in the units of the      *)
(* feature file's geometry.                                                *)
(***************************************************************************)
EXTENDS Integers, Sequences, FiniteSets, TLC

VARIABLES
    features,        \* features_list of etape_classification_mnt (run 1)
    mnt,             \* the elevation grid opened as mnt_src (run 1)
    i,               \* loop position in features_list (1-based, next to process)
    pc,              \* position of the classifier: "loop" | "done"
    count_terrasse,
    count_mur,
    count_err,
    count_sliver,
    ran,             \* per processed feature, the classification steps executed
    features2,       \* second classifier run on the same features ...
    mnt2,            \* ... with another elevation grid
    query,           \* read_elev call: [x, y, result]
    pente,           \* the slope grid read by etape_ruptures, as a list of blocks
    seuil,           \* the slope threshold (SEUIL_PENTE) of run 1, in slope units
    seuil2,          \* the threshold of a second run, seuil <= seuil2
    ruptures,        \* the blocks written to the mask grid so far (run 1)
    ruptures2,       \* the blocks written by the second run
    fileMnt,         \* FILE_MNT: None when the file does not exist, else <<grid>>
    filePente,       \* FILE_PENTE
    fileRuptures,    \* FILE_RUPTURES
    fileGeojson,     \* FILE_GEOJSON: None or <<[features |-> list]>>
    fileDashboard,   \* FILE_DASHBOARD: None or <<stats>>
    pcMain,          \* the stage __main__ is about to call
    run,             \* the number of the pipeline run
    count,           \* count = etape_vectorisation()
    opened,          \* the files the last stage opened for reading
    written,         \* the files the last stage opened for writing
    handles,         \* the open file handles: [file, mode, owner]
    bloc,            \* the number of blocks the running raster stage has written
    cpu,             \* the number of worker processes of the pool
    failure,         \* the fault of this run: what fails in the workers
    unions,          \* which unary_union raised: "none" | "ok" | "bulk" | "fallback"
    tasks,           \* per batch: [state, result] in the pool
    allPolygons,     \* all_polygons of etape_vectorisation
    finalGeoms,      \* final_geoms of etape_vectorisation
    pos              \* the number of final_geoms the export loop has gone through

clsVars == <<features, mnt, i, pc, count_terrasse, count_mur, count_err,
             count_sliver, ran>>
run2Vars == <<features2, mnt2>>
maskVars == <<pente, seuil, seuil2, ruptures, ruptures2>>
fileVars == <<fileMnt, filePente, fileRuptures, fileGeojson, fileDashboard>>
pipeVars == <<fileVars, pcMain, run, count, opened, written>>
ioVars == <<handles, bloc, cpu, failure, unions, tasks, allPolygons, finalGeoms, pos>>

(***************************************************************************)
(* Bounds of the model                                                     *)
(***************************************************************************)
MaxFeatures == 2
MaxBlocks == 2
MaxRuns == 2
MaxWorkers == 2
MaxGeoms == 2
MaxBlockRows == 4

(***************************************************************************)
(* Program constants                                                       *)
(***************************************************************************)
SEUIL_PENTE == 15
MIN_AREA == 20
MAX_AREA == 10000
PAD_CALC == 8
PAD_VECT == 2
BATCH_SIZE == 50
UNION_CHUNK == 1000
DashboardDefault == 1000
DIST_SONDAGE == 5
SliverCutoff == 20
\* gc_score > 5.0, in thousandths
GcCutoffMilli == 5000
\* read_elev: elev < -100 or elev > 5000 (metres)
ElevSanityMin == -100
ElevSanityMax == 5000

MmPerMetre == 10 * 100

(***************************************************************************)
(* Arithmetic helpers                                                      *)
(***************************************************************************)
Abs(x) == IF x < 0 THEN -x ELSE x

RECURSIVE IsqrtBetween(_, _, _)
\* the r with lo <= r < hi and r*r <= n < (r+1)*(r+1), given lo*lo <= n < hi*hi
IsqrtBetween(n, lo, hi) ==
    IF hi - lo <= 1 THEN lo
    ELSE LET mid == (lo + hi) \div 2
         IN IF mid * mid <= n THEN IsqrtBetween(n, mid, hi)
                              ELSE IsqrtBetween(n, lo, mid)

\* floor of the square root (x ** 0.5, np.sqrt), n < 46340^2
Isqrt(n) == IsqrtBetween(n, 0, 46340)

RECURSIVE MulDivRem(_, _, _)
\* <<q, m>> with r * b = q * c + m and 0 <= m < c, for 0 <= r < c, without
\* forming the product r * b
MulDivRem(r, b, c) ==
    IF b = 0 THEN <<0, 0>>
    ELSE LET h == MulDivRem(r, b \div 2, c)
             t == 2 * h[2] + (b % 2) * r
         IN <<2 * h[1] + t \div c, t % c>>

\* floor(a * b / c) for a, b >= 0 and c > 0
MulDiv(a, b, c) == (a \div c) * b + MulDivRem(a % c, b, c)[1]

\* round(v, 2) of a value given in thousandths; the result is in hundredths
Round2(m) ==
    LET q == m \div 10
        r == m % 10
    IN IF r < 5 THEN q
       ELSE IF r > 5 THEN q + 1
       ELSE IF q % 2 = 0 THEN q ELSE q + 1

RECURSIVE Insert(_, _)
Insert(s, x) ==
    IF s = <<>> THEN <<x>>
    ELSE IF x <= Head(s) THEN <<x>> \o s
    ELSE <<Head(s)>> \o Insert(Tail(s), x)

RECURSIVE Sorted(_)
\* list.sort()
Sorted(s) == IF s = <<>> THEN <<>> ELSE Insert(Sorted(Tail(s)), Head(s))

\* dict assignment d[k] = v
SetProp(d, k, v) == [x \in DOMAIN d \cup {k} |-> IF x = k THEN v ELSE d[x]]

(***************************************************************************)
(* Shape measures                                                          *)
(***************************************************************************)
\* perim / (area ** 0.5) in thousandths: floor(1000 * P / sqrt(A)), area > 0
SliverRatioMilli(perim, area) == Isqrt(MulDiv(perim * perim, 1000000, area))

\* perim / (2 * np.sqrt(np.pi * area)) if area > 0 else 1.0, in thousandths.
\* pi is taken as 355/113: 10^6 * P^2 / (4 * pi * A) = 5650000 * P^2 / (71 * A)
GcScoreMilli(perim, area) ==
    IF area > 0
    THEN Isqrt(MulDiv(perim * perim, 5650000, 71 * area))
    ELSE 1000

(***************************************************************************)
(* Elevation grid and read_elev                                            *)
(***************************************************************************)
\* An absent value (Python None) is the empty sequence, a present value v is <<v>>.
None == <<>>
Some(v) == <<v>>

\* mnt_src.bounds of a north-up grid
BoundsRight(g) == g.left + g.width * g.res
BoundsBottom(g) == g.top - g.height * g.res

\* mnt_src.index(x, y): (row, col) by floor
IndexRow(g, y) == (g.top - y) \div g.res
IndexCol(g, x) == (x - g.left) \div g.res

\* faulty variant: the sanity bounds taken as exclusive
read_elev_exclusive(g, x, y) ==
    IF x < g.left \/ x > BoundsRight(g) \/ y < BoundsBottom(g) \/ y > g.top
    THEN None
    ELSE LET row == IndexRow(g, y)
             col == IndexCol(g, x)
         IN IF 0 <= row /\ row < g.height /\ 0 <= col /\ col < g.width
            THEN LET elev == g.data[row][col]
                 IN IF g.nodata # None /\ elev = g.nodata[1] THEN None
                    ELSE IF elev <= ElevSanityMin * MmPerMetre
                            \/ elev >= ElevSanityMax * MmPerMetre THEN None
                    ELSE Some(elev)
            ELSE None

read_elev(g, x, y) ==
    IF x < g.left \/ x > BoundsRight(g) \/ y < BoundsBottom(g) \/ y > g.top
    THEN None
    ELSE LET row == IndexRow(g, y)
             col == IndexCol(g, x)
         IN IF 0 <= row /\ row < g.height /\ 0 <= col /\ col < g.width
            THEN LET elev == g.data[row][col]
                 IN IF g.nodata # None /\ elev = g.nodata[1] THEN None
                    ELSE IF elev < ElevSanityMin * MmPerMetre
                            \/ elev > ElevSanityMax * MmPerMetre THEN None
                    ELSE Some(elev)
            ELSE None

(***************************************************************************)
(* Classifier: the body of the feature loop of etape_classification_mnt   *)
(*                                                                         *)
(* A geometry is a record                                                  *)
(*   raisesAt : "none" | "shape" | "mrr"  (the geometry call that raises)  *)
(*   empty, valid : geom.is_empty, geom.is_valid                           *)
(*   perim, area  : geom.length, geom.area                                 *)
(*   mrr          : list(geom.minimum_rotated_rectangle.exterior.coords)   *)
(***************************************************************************)
EdgeLen(a, b) == Isqrt((b[1] - a[1]) * (b[1] - a[1]) + (b[2] - a[2]) * (b[2] - a[2]))

\* the longer edge of the bounding rectangle: [start, end, dx, dy]
PrincipalAxis(coords_mrr) ==
    IF EdgeLen(coords_mrr[1], coords_mrr[2]) >= EdgeLen(coords_mrr[2], coords_mrr[3])
    THEN [start |-> coords_mrr[1], end |-> coords_mrr[2],
          dx |-> coords_mrr[2][1] - coords_mrr[1][1],
          dy |-> coords_mrr[2][2] - coords_mrr[1][2]]
    ELSE [start |-> coords_mrr[2], end |-> coords_mrr[3],
          dx |-> coords_mrr[3][1] - coords_mrr[2][1],
          dy |-> coords_mrr[3][2] - coords_mrr[2][2]]

\* the station at frac = k/4 along the axis (k = 1, 2, 3)
Station(axis, k) ==
    <<axis.start[1] + ((axis.end[1] - axis.start[1]) * k) \div 4,
      axis.start[2] + ((axis.end[2] - axis.start[2]) * k) \div 4>>

\* (perp_x * DIST_SONDAGE, perp_y * DIST_SONDAGE), length > 0
Standoff(axis) ==
    LET length == Isqrt(axis.dx * axis.dx + axis.dy * axis.dy)
    IN <<((-axis.dy) * DIST_SONDAGE) \div length, (axis.dx * DIST_SONDAGE) \div length>>

\* the two readings of station k: <<elev_a, elev_b>>
ProbePair(g, axis, k) ==
    LET s == Station(axis, k)
        o == Standoff(axis)
    IN <<read_elev(g, s[1] + o[1], s[2] + o[2]), read_elev(g, s[1] - o[1], s[2] - o[2])>>

\* what one station appends to deltas
StationDelta(pair) ==
    IF pair[1] # None /\ pair[2] # None THEN <<Abs(pair[1][1] - pair[2][1])>> ELSE <<>>

\* deltas after the loop over frac in [0.25, 0.5, 0.75]
ProbeDeltas(g, axis) ==
    StationDelta(ProbePair(g, axis, 1)) \o StationDelta(ProbePair(g, axis, 2))
        \o StationDelta(ProbePair(g, axis, 3))

\* faulty variant: the sort forgotten
ProbeDeltaUnsorted(deltas) ==
    IF deltas # <<>> THEN deltas[(Len(deltas) \div 2) + 1] ELSE 0

\* delta = 0; if deltas: deltas.sort(); delta = deltas[len(deltas) // 2]   (millimetres)
ProbeDelta(deltas) ==
    IF deltas # <<>> THEN Sorted(deltas)[(Len(deltas) \div 2) + 1] ELSE 0

\* faulty variant: the sliver cutoff taken at 25
IsSliverAt25(perim, area) == SliverRatioMilli(perim, area) > 25 * 1000

\* faulty variant: the sliver cutoff compared with >=
IsSliverInclusive(perim, area) == SliverRatioMilli(perim, area) >= SliverCutoff * 1000

\* perim / (area ** 0.5) > 20
IsSliver(perim, area) == SliverRatioMilli(perim, area) > SliverCutoff * 1000

\* faulty variant: the cutoff compared with >=
IsTerrasseInclusive(gc_score) == gc_score >= GcCutoffMilli

\* gc_score > 5.0
IsTerrasse(gc_score) == gc_score > GcCutoffMilli

\* except Exception: c = 'm', t = 0, de = 0, count_err += 1
HandleException(props) ==
    [props |-> SetProp(SetProp(SetProp(props, "c", "m"), "t", 0), "de", 0),
     outcome |-> "err", sliver |-> FALSE, steps |-> {"except"}]

\* faulty variant: the guard counts the feature as a wall
GuardBranchAsMur(props) ==
    [props |-> SetProp(SetProp(props, "c", "m"), "de", 0),
     outcome |-> "mur", sliver |-> FALSE, steps |-> {"guard"}]

\* if geom.is_empty or not geom.is_valid: c = 'm', de = 0, count_err += 1, continue
GuardBranch(props) ==
    [props |-> SetProp(SetProp(props, "c", "m"), "de", 0),
     outcome |-> "err", sliver |-> FALSE, steps |-> {"guard"}]

\* faulty variant: a sliver counted as sliver only
SliverBranchSliverOnly(props) ==
    [props |-> SetProp(SetProp(props, "c", "m"), "de", 0),
     outcome |-> "sliver", sliver |-> TRUE, steps |-> {"guard", "sliver"}]

\* sliver_ratio > 20: c = 'm', de = 0, count_sliver += 1, count_mur += 1, continue
SliverBranch(props) ==
    [props |-> SetProp(SetProp(props, "c", "m"), "de", 0),
     outcome |-> "mur", sliver |-> TRUE, steps |-> {"guard", "sliver"}]

\* length == 0: c = 'm', de = 0, count_mur += 1, continue
DegenerateBranch(props) ==
    [props |-> SetProp(SetProp(props, "c", "m"), "de", 0),
     outcome |-> "mur", sliver |-> FALSE, steps |-> {"guard", "sliver", "mrr"}]

\* faulty variant: the labels of the two branches exchanged
DecisionBranchSwapped(props, geom, deltas) ==
    LET gc_score == GcScoreMilli(geom.perim, geom.area)
        p1 == SetProp(props, "gc", Round2(gc_score))
        p2 == SetProp(p1, "de", Round2(ProbeDelta(deltas)))
        steps == {"guard", "sliver", "mrr", "probe", "decision"}
    IN IF IsTerrasse(gc_score)
       THEN [props |-> SetProp(SetProp(p2, "c", "m"), "t", 0),
             outcome |-> "mur", sliver |-> FALSE, steps |-> steps]
       ELSE [props |-> SetProp(SetProp(p2, "c", "t"), "t", 1),
             outcome |-> "terrasse", sliver |-> FALSE, steps |-> steps]

\* faulty variant: the earlier rule, terrace when the probe delta exceeds SEUIL_ASYM (0.7 m)
DecisionBranchByDelta(props, geom, deltas) ==
    LET gc_score == GcScoreMilli(geom.perim, geom.area)
        p1 == SetProp(props, "gc", Round2(gc_score))
        p2 == SetProp(p1, "de", Round2(ProbeDelta(deltas)))
        steps == {"guard", "sliver", "mrr", "probe", "decision"}
    IN IF ProbeDelta(deltas) > 700
       THEN [props |-> SetProp(SetProp(p2, "c", "t"), "t", 1),
             outcome |-> "terrasse", sliver |-> FALSE, steps |-> steps]
       ELSE [props |-> SetProp(SetProp(p2, "c", "m"), "t", 0),
             outcome |-> "mur", sliver |-> FALSE, steps |-> steps]

\* the "if True:" block: gc, de, then the decision on gc_score alone
DecisionBranch(props, geom, deltas) ==
    LET gc_score == GcScoreMilli(geom.perim, geom.area)
        p1 == SetProp(props, "gc", Round2(gc_score))
        p2 == SetProp(p1, "de", Round2(ProbeDelta(deltas)))
        steps == {"guard", "sliver", "mrr", "probe", "decision"}
    IN IF IsTerrasse(gc_score)
       THEN [props |-> SetProp(SetProp(p2, "c", "t"), "t", 1),
             outcome |-> "terrasse", sliver |-> FALSE, steps |-> steps]
       ELSE [props |-> SetProp(SetProp(p2, "c", "m"), "t", 0),
             outcome |-> "mur", sliver |-> FALSE, steps |-> steps]

\* faulty variant: a feature that already carries a label is passed over
ClassifyFeatureOnce(feat, g) ==
    LET geom == feat.geometry
        props == feat.properties
    IN IF "c" \in DOMAIN props
       THEN [props |-> props, outcome |-> "none", sliver |-> FALSE, steps |-> {}]
       ELSE IF geom.raisesAt = "shape" THEN HandleException(props)
       ELSE IF geom.empty \/ ~geom.valid THEN GuardBranch(props)
       ELSE IF geom.area > 0 /\ IsSliver(geom.perim, geom.area) THEN SliverBranch(props)
       ELSE IF geom.raisesAt = "mrr" THEN HandleException(props)
       ELSE LET axis == PrincipalAxis(geom.mrr)
            IN IF axis.dx = 0 /\ axis.dy = 0 THEN DegenerateBranch(props)
               ELSE DecisionBranch(props, geom, ProbeDeltas(g, axis))

\* one iteration of "for i, feat in enumerate(features_list)" on grid g
ClassifyFeature(feat, g) ==
    LET geom == feat.geometry
        props == feat.properties
    IN IF geom.raisesAt = "shape" THEN HandleException(props)
       ELSE IF geom.empty \/ ~geom.valid THEN GuardBranch(props)
       ELSE IF geom.area > 0 /\ IsSliver(geom.perim, geom.area) THEN SliverBranch(props)
       ELSE IF geom.raisesAt = "mrr" THEN HandleException(props)
       ELSE LET axis == PrincipalAxis(geom.mrr)
            IN IF axis.dx = 0 /\ axis.dy = 0 THEN DegenerateBranch(props)
               ELSE DecisionBranch(props, geom, ProbeDeltas(g, axis))

(***************************************************************************)
(* Exporter: the properties written with each feature (etape_vectorisation)*)
(* perimDm, areaDm2: final_poly.length and final_poly.area in the working  *)
(* CRS, in tenths of a metre and hundredths of a square metre.             *)
(***************************************************************************)

\* faulty variant: the compactness not written at export
ExportPropsNoGc(perimDm, areaDm2) ==
    [t |-> 1, a |-> areaDm2 \div 100, p |-> perimDm \div 10]

\* props = {"t": 1, "a": int(area), "p": int(perim), "gc": round(gc, 2)}
ExportProps(perimDm, areaDm2) ==
    [t |-> 1, a |-> areaDm2 \div 100, p |-> perimDm \div 10,
     gc |-> Round2(GcScoreMilli(perimDm, areaDm2))]

(***************************************************************************)
(* Inputs of the classifier                                                *)
(***************************************************************************)
NoDataValue == -9999 * MmPerMetre

\* bounding rectangles, as closed rings of 5 points
RectLongFirst == <<<<0, 6>>, <<48, 6>>, <<48, 8>>, <<0, 8>>, <<0, 6>>>>
RectLongSecond == <<<<48, 6>>, <<48, 8>>, <<0, 8>>, <<0, 6>>, <<48, 6>>>>
RectDegenerate == <<<<0, 6>>, <<0, 6>>, <<0, 6>>, <<0, 6>>, <<0, 6>>>>

Polygon(perim, area, mrr) ==
    [raisesAt |-> "none", empty |-> FALSE, valid |-> TRUE,
     perim |-> perim, area |-> area, mrr |-> mrr]

GeomInputs ==
    { Polygon(100, 96, RectLongFirst),      \* compact: gc 2.879
      Polygon(3550, 40115, RectLongFirst),  \* gc 5.000: 113 * P^2 = 35500 * A
      Polygon(107, 36, RectLongFirst),      \* gc 5.030
      Polygon(108, 36, RectLongSecond),     \* gc 5.077, probes leave the grid
      Polygon(120, 36, RectLongFirst),      \* P/sqrt(A) = 20 exactly, gc 5.641
      Polygon(121, 36, RectLongFirst),      \* P/sqrt(A) > 20, gc 5.688
      Polygon(100, 96, RectDegenerate),
      [Polygon(0, 0, RectDegenerate) EXCEPT !.empty = TRUE],
      [Polygon(100, 96, RectLongFirst) EXCEPT !.valid = FALSE],
      [Polygon(0, 0, RectDegenerate) EXCEPT !.raisesAt = "shape"],
      [Polygon(108, 36, RectLongFirst) EXCEPT !.raisesAt = "mrr"] }

\* a feature as the Exporter wrote it (a 40 m x 2.5 m polygon in the working CRS)
FeatureInputs == { [geometry |-> g, properties |-> ExportProps(850, 10000)] : g \in GeomInputs }

FeatureLists == UNION { [1..n -> FeatureInputs] : n \in 0..MaxFeatures }

\* the sample values of the probed pixels
ProbeValues == { NoDataValue, 100 * MmPerMetre, 103 * MmPerMetre + 4 }

\* a 12 x 3 grid of 4-unit pixels over [0, 48] x [0, 12]; the top row carries
\* a[1], a[2], a[3] in its three thirds, the other rows 100 m
MntOf(a) ==
    [nodata |-> Some(NoDataValue), width |-> 12, height |-> 3,
     left |-> 0, top |-> 12, res |-> 4,
     data |-> [row \in 0..2 |-> [col \in 0..11 |->
                 IF row = 0 THEN a[(col \div 4) + 1] ELSE 100 * MmPerMetre]]]

\* the same samples under other bounds: no probe point falls on this grid
MntElsewhere == [MntOf([k \in 1..3 |-> 100 * MmPerMetre]) EXCEPT !.left = 1000]

MntInputs == { MntOf(a) : a \in [1..3 -> ProbeValues] } \cup {MntElsewhere}

\* the grids with one value over the whole top row
MntUniformInputs == { MntOf([k \in 1..3 |-> v]) : v \in ProbeValues }

\* small grids for read_elev: 2 x 1 pixels of 2 units over [0, 4] x [0, 2]
ElevValues == { NoDataValue, ElevSanityMin * MmPerMetre - 1, ElevSanityMin * MmPerMetre, 0,
                ElevSanityMax * MmPerMetre, ElevSanityMax * MmPerMetre + 1 }

ElevGridInputs ==
    { [nodata |-> nd, width |-> 2, height |-> 1, left |-> 0, top |-> 2, res |-> 2,
       data |-> [row \in {0} |-> [col \in 0..1 |-> v[col + 1]]]] :
      nd \in {None, Some(NoDataValue)}, v \in [1..2 -> ElevValues] }

NoQuery == [x |-> 0, y |-> 0, result |-> None, asked |-> FALSE]

(***************************************************************************)
(* The parts of the state a specification does not use                     *)
(***************************************************************************)
CountersZero ==
    /\ count_terrasse = 0
    /\ count_mur = 0
    /\ count_err = 0
    /\ count_sliver = 0

ClassifIdle ==
    /\ features = <<>>
    /\ mnt = MntElsewhere
    /\ i = 1
    /\ pc = "loop"
    /\ CountersZero
    /\ ran = <<>>

Run2Idle == features2 = <<>> /\ mnt2 = MntElsewhere

MaskIdle ==
    /\ pente = <<>>
    /\ seuil = SEUIL_PENTE
    /\ seuil2 = SEUIL_PENTE
    /\ ruptures = <<>>
    /\ ruptures2 = <<>>

PipelineIdle ==
    /\ fileMnt = None
    /\ filePente = None
    /\ fileRuptures = None
    /\ fileGeojson = None
    /\ fileDashboard = None
    /\ pcMain = "pente"
    /\ run = 1
    /\ count = 0
    /\ opened = {}
    /\ written = {}

IOIdle ==
    /\ handles = {}
    /\ bloc = 0
    /\ cpu = 1
    /\ failure = [kind |-> "none", window |-> 0, index |-> 0]
    /\ unions = "none"
    /\ tasks = <<>>
    /\ allPolygons = <<>>
    /\ finalGeoms = <<>>
    /\ pos = 0

(***************************************************************************)
(* Classifier as a loop: SpecClassif                                       *)
(***************************************************************************)
InitClassif ==
    /\ features \in FeatureLists
    /\ mnt \in MntUniformInputs
    /\ i = 1
    /\ pc = "loop"
    /\ CountersZero
    /\ ran = <<>>
    /\ Run2Idle
    /\ query = NoQuery
    /\ MaskIdle
    /\ PipelineIdle
    /\ IOIdle

\* one iteration of the feature loop
ClassifyStep ==
    /\ pc = "loop"
    /\ i <= Len(features)
    /\ LET r == ClassifyFeature(features[i], mnt)
       IN /\ features' = [features EXCEPT ![i].properties = r.props]
          /\ count_terrasse' = count_terrasse + (IF r.outcome = "terrasse" THEN 1 ELSE 0)
          /\ count_mur' = count_mur + (IF r.outcome = "mur" THEN 1 ELSE 0)
          /\ count_err' = count_err + (IF r.outcome = "err" THEN 1 ELSE 0)
          /\ count_sliver' = count_sliver + (IF r.sliver THEN 1 ELSE 0)
          /\ ran' = Append(ran, r.steps)
    /\ i' = i + 1
    /\ UNCHANGED <<mnt, pc, run2Vars, query, maskVars, pipeVars, ioVars>>

\* the loop is over: the results are reported and the collection rewritten
ClassifyFinish ==
    /\ pc = "loop"
    /\ i > Len(features)
    /\ pc' = "done"
    /\ UNCHANGED <<features, mnt, i, count_terrasse, count_mur, count_err,
                   count_sliver, ran, run2Vars, query, maskVars, pipeVars, ioVars>>

NextClassif == ClassifyStep \/ ClassifyFinish

vars == <<clsVars, run2Vars, query, maskVars, pipeVars, ioVars>>

SpecClassif == InitClassif /\ [][NextClassif]_vars

(***************************************************************************)
(* Two classifier runs on one feature with two elevation grids: SpecProbe  *)
(***************************************************************************)
InitProbe ==
    /\ features \in [1..1 -> FeatureInputs]
    /\ features2 = features
    /\ mnt \in MntInputs
    /\ mnt2 \in MntInputs
    /\ i = 1
    /\ pc = "loop"
    /\ CountersZero
    /\ ran = <<>>
    /\ query = NoQuery
    /\ MaskIdle
    /\ PipelineIdle
    /\ IOIdle

\* the loop body on the same feature in both runs, each with its own grid
ClassifyBoth ==
    /\ pc = "loop"
    /\ i = 1
    /\ LET r == ClassifyFeature(features[1], mnt)
           r2 == ClassifyFeature(features2[1], mnt2)
       IN /\ features' = [features EXCEPT ![1].properties = r.props]
          /\ features2' = [features2 EXCEPT ![1].properties = r2.props]
          /\ count_terrasse' = count_terrasse + (IF r.outcome = "terrasse" THEN 1 ELSE 0)
          /\ count_mur' = count_mur + (IF r.outcome = "mur" THEN 1 ELSE 0)
          /\ count_err' = count_err + (IF r.outcome = "err" THEN 1 ELSE 0)
          /\ count_sliver' = count_sliver + (IF r.sliver THEN 1 ELSE 0)
          /\ ran' = Append(ran, r.steps)
    /\ i' = 2
    /\ pc' = "done"
    /\ UNCHANGED <<mnt, mnt2, query, maskVars, pipeVars, ioVars>>

NextProbe == ClassifyBoth

SpecProbe == InitProbe /\ [][NextProbe]_vars

(***************************************************************************)
(* Calls of read_elev: SpecElev                                            *)
(***************************************************************************)
InitElev ==
    /\ mnt \in ElevGridInputs
    /\ query = NoQuery
    /\ features = <<>>
    /\ i = 1
    /\ pc = "loop"
    /\ CountersZero
    /\ ran = <<>>
    /\ Run2Idle
    /\ MaskIdle
    /\ PipelineIdle
    /\ IOIdle

\* read_elev(x, y) for a point in or around the grid
ReadElevCall ==
    /\ \E x \in -1..5, y \in -1..3 :
          query' = [x |-> x, y |-> y, result |-> read_elev(mnt, x, y), asked |-> TRUE]
    /\ UNCHANGED <<clsVars, run2Vars, maskVars, pipeVars, ioVars>>

NextElev == ReadElevCall

SpecElev == InitElev /\ [][NextElev]_vars

(***************************************************************************)
(* BreakMask: the block loop of etape_ruptures, run with two thresholds:   *)
(* SpecMask.  A block is a list of slope samples in thousandths.           *)
(***************************************************************************)

\* faulty variant: the threshold itself counted as a break
SeuillageInclusive(data, s) == [px \in DOMAIN data |-> IF data[px] >= s * 1000 THEN 1 ELSE 0]

\* mask = np.where(data > SEUIL_PENTE, 1, 0).astype(np.uint8)
Seuillage(data, s) == [px \in DOMAIN data |-> IF data[px] > s * 1000 THEN 1 ELSE 0]

\* slope samples around the thresholds 15 and 16
SlopeValues == { SEUIL_PENTE * 1000 - 1, SEUIL_PENTE * 1000, SEUIL_PENTE * 1000 + 1,
                 (SEUIL_PENTE + 1) * 1000 + 1 }

\* blocks of 2 pixels
SlopeBlocks == [1..2 -> SlopeValues]

InitMask ==
    /\ pente \in UNION { [1..n -> SlopeBlocks] : n \in 1..MaxBlocks }
    /\ seuil \in SEUIL_PENTE..(SEUIL_PENTE + 1)
    /\ seuil2 \in seuil..(SEUIL_PENTE + 1)
    /\ ruptures = <<>>
    /\ ruptures2 = <<>>
    /\ ClassifIdle
    /\ Run2Idle
    /\ query = NoQuery
    /\ PipelineIdle
    /\ IOIdle

\* one iteration of "for _, window in src.block_windows(1)": read, threshold, write
SeuillerBloc ==
    /\ Len(ruptures) < Len(pente)
    /\ LET data == pente[Len(ruptures) + 1]
       IN /\ ruptures' = Append(ruptures, Seuillage(data, seuil))
          /\ ruptures2' = Append(ruptures2, Seuillage(data, seuil2))
    /\ UNCHANGED <<pente, seuil, seuil2, clsVars, run2Vars, query, pipeVars, ioVars>>

NextMask == SeuillerBloc

SpecMask == InitMask /\ [][NextMask]_vars

(***************************************************************************)
(* The rasters of the pipeline.  A raster is a grid record with one more   *)
(* field, blockysize: its blocks are strips of blockysize rows.  A window  *)
(* is [col_off, row_off, width, height].                                   *)
(***************************************************************************)
Min(a, b) == IF a <= b THEN a ELSE b

\* len(list(src.block_windows(1)))
NBlocks(g) == (g.height + g.blockysize - 1) \div g.blockysize

\* the k-th window of src.block_windows(1), k = 1..NBlocks(g)
BlockWindow(g, k) ==
    [col_off |-> 0, row_off |-> (k - 1) * g.blockysize, width |-> g.width,
     height |-> Min(g.blockysize, g.height - (k - 1) * g.blockysize)]

\* windows.Window(col_off - pad, row_off - pad, width + 2*pad, height + 2*pad)
PadWindow(win, pad) ==
    [col_off |-> win.col_off - pad, row_off |-> win.row_off - pad,
     width |-> win.width + 2 * pad, height |-> win.height + 2 * pad]

\* what a boundless read returns outside the raster
FillValue(g) == IF g.nodata # None THEN g.nodata[1] ELSE 0

\* src.read(1, window=win, boundless=True), indexed from 0
ReadWindow(g, win) ==
    [r \in 0..(win.height - 1) |-> [c \in 0..(win.width - 1) |->
        LET row == win.row_off + r
            col == win.col_off + c
        IN IF 0 <= row /\ row < g.height /\ 0 <= col /\ col < g.width
           THEN g.data[row][col]
           ELSE FillValue(g)]]

(***************************************************************************)
(* SlopeComputer (etape_pente).  Elevations are millimetres, so the Sobel  *)
(* magnitude comes out in thousandths of the unit SEUIL_PENTE is in.       *)
(***************************************************************************)
\* the index scipy reads beyond an edge of an array of n samples (mode='reflect')
Reflect(k, n) == IF k < 0 THEN -k - 1 ELSE IF k >= n THEN 2 * n - k - 1 ELSE k

\* the smoothing weights (1, 2, 1) of the Sobel filter
SobelWeight(d) == IF d = 0 THEN 2 ELSE 1

\* ndimage.sobel(data, axis)[r][c] for an array of h rows and w columns
SobelAt(data, h, w, r, c, axis) ==
    LET D(y, x) == data[Reflect(y, h)][Reflect(x, w)]
        Term(d) == IF axis = 0
                   THEN SobelWeight(d) * (D(r + 1, c + d) - D(r - 1, c + d))
                   ELSE SobelWeight(d) * (D(r + d, c + 1) - D(r + d, c - 1))
    IN Term(-1) + Term(0) + Term(1)

\* np.hypot(sx, sy)
Hypot(sx, sy) == Isqrt(sx * sx + sy * sy)

\* faulty variant: the block read without its margin
SlopeBlockNoPad(g, win) ==
    LET data == ReadWindow(g, win)
    IN [r \in 0..(win.height - 1) |-> [c \in 0..(win.width - 1) |->
          Hypot(SobelAt(data, win.height, win.width, r, c, 1),
                SobelAt(data, win.height, win.width, r, c, 0))]]

\* the body of the block loop: the array written at window win
SlopeBlock(g, win) ==
    LET read_window == PadWindow(win, PAD_CALC)
        data == ReadWindow(g, read_window)
        h == read_window.height
        w == read_window.width
        shape == <<Min(win.height, h - PAD_CALC), Min(win.width, w - PAD_CALC)>>
    IN [r \in 0..(win.height - 1) |-> [c \in 0..(win.width - 1) |->
          IF shape # <<win.height, win.width>> THEN 0
          ELSE Hypot(SobelAt(data, h, w, PAD_CALC + r, PAD_CALC + c, 1),
                     SobelAt(data, h, w, PAD_CALC + r, PAD_CALC + c, 0))]]

\* the raster etape_pente writes from the raster g, block by block
PenteOf(g) ==
    [g EXCEPT !.data = [row \in 0..(g.height - 1) |-> [col \in 0..(g.width - 1) |->
        LET win == BlockWindow(g, (row \div g.blockysize) + 1)
        IN SlopeBlock(g, win)[row - win.row_off][col - win.col_off]]]]

(***************************************************************************)
(* BreakMask (etape_ruptures) on a raster                                  *)
(***************************************************************************)
\* the raster etape_ruptures writes from the slope raster p (profile: nodata=0)
RupturesOf(p) ==
    [p EXCEPT !.nodata = Some(0),
              !.data = [row \in 0..(p.height - 1) |-> Seuillage(p.data[row], SEUIL_PENTE)]]

(***************************************************************************)
(* Vectoriser and Exporter (process_window_batch, etape_vectorisation).    *)
(* A polygon traced from the mask is the set of its cells <<row, col>>;    *)
(* lengths are metres and areas square metres of the working CRS.          *)
(***************************************************************************)
\* the cells equal to 1 in the boundless read of window win
MaskCells(g, win) ==
    LET data == ReadWindow(g, win)
    IN { cell \in (win.row_off..(win.row_off + win.height - 1))
                    \X (win.col_off..(win.col_off + win.width - 1)) :
           data[cell[1] - win.row_off][cell[2] - win.col_off] = 1 }

\* two cells sharing a side (features.shapes traces with connectivity 4)
Adjacent(a, b) == Abs(a[1] - b[1]) + Abs(a[2] - b[2]) = 1

\* the first cell of a region in scan order
FirstCell(cells) ==
    CHOOSE a \in cells : \A b \in cells : a[1] < b[1] \/ (a[1] = b[1] /\ a[2] <= b[2])

RECURSIVE Grow(_, _)
\* the region of cells connected to the cells of cur
Grow(cells, cur) ==
    LET next == cur \cup { a \in cells : \E b \in cur : Adjacent(a, b) }
    IN IF next = cur THEN cur ELSE Grow(cells, next)

RECURSIVE Components(_)
\* the connected regions of a set of cells, in scan order
Components(cells) ==
    IF cells = {} THEN <<>>
    ELSE LET region == Grow(cells, {FirstCell(cells)})
         IN <<region>> \o Components(cells \ region)

\* s_geom.simplify(tol) with tol below the pixel size keeps every corner of a
\* pixel outline, but joins nothing and removes nothing
Simplify(poly) == poly

\* s_geom.buffer(3).buffer(-3) of ONE traced polygon, to the nearest cell: a
\* slot one 4 m pixel wide between two cells of the polygon is narrower than
\* the 6 m the closing bridges; a rectangle is left as it is
Closing(poly) ==
    poly \cup { cell \in UNION { { <<a[1] + 1, a[2]>>, <<a[1], a[2] + 1>> } : a \in poly } :
                  \/ <<cell[1] - 1, cell[2]>> \in poly /\ <<cell[1] + 1, cell[2]>> \in poly
                  \/ <<cell[1], cell[2] - 1>> \in poly /\ <<cell[1], cell[2] + 1>> \in poly }

\* geom.area
Area(poly, g) == Cardinality(poly) * g.res * g.res

\* the sides of the outline that run along x, and those that run along y
SidesAlongX(poly) ==
    Cardinality({ e \in poly \X {-1, 1} : <<e[1][1] + e[2], e[1][2]>> \notin poly })
SidesAlongY(poly) ==
    Cardinality({ e \in poly \X {-1, 1} : <<e[1][1], e[1][2] + e[2]>> \notin poly })

\* geom.length
Perimeter(poly, g) == (SidesAlongX(poly) + SidesAlongY(poly)) * g.res

RECURSIVE KeptPolygons(_, _)
\* the loop over shapes_gen: simplify, close, filter by area, append
KeptPolygons(traced, g) ==
    IF traced = <<>> THEN <<>>
    ELSE LET smoothed_geom == Closing(Simplify(Head(traced)))
             areal == Area(smoothed_geom, g)
         IN (IF areal < MIN_AREA \/ areal > MAX_AREA THEN <<>> ELSE <<smoothed_geom>>)
            \o KeptPolygons(Tail(traced), g)

\* what one window adds to polys: nothing when the padded read holds no 1
WindowPolygons(g, win) ==
    KeptPolygons(Components(MaskCells(g, PadWindow(win, PAD_VECT))), g)

(***************************************************************************)
(* Failures inside a worker.  A fault is what goes wrong in one run:       *)
(*   kind "none"  : nothing                                                *)
(*   kind "read"  : src.read of the padded window of block `window` raises *)
(*   kind "trace" : features.shapes raises while block `window` is traced  *)
(*   kind "poly"  : a geometry call on the `index`-th shape of block       *)
(*                  `window` raises (shape, simplify, buffer or area)      *)
(***************************************************************************)
NoFault == [kind |-> "none", window |-> 0, index |-> 0]

\* the failure is raised outside the "try" around one polygon
EscapesPolygonTry(fault) == fault.kind \in {"read", "trace"}

RECURSIVE KeptWithFault(_, _, _, _)
\* the loop over shapes_gen when the bad-th shape raises: "except Exception: pass"
KeptWithFault(traced, g, k, bad) ==
    IF traced = <<>> THEN <<>>
    ELSE (IF k = bad THEN <<>> ELSE KeptPolygons(<<Head(traced)>>, g))
         \o KeptWithFault(Tail(traced), g, k + 1, bad)

\* what block k adds to polys under the fault
WindowKept(g, k, fault) ==
    IF fault.kind = "poly" /\ fault.window = k
    THEN KeptWithFault(Components(MaskCells(g, PadWindow(BlockWindow(g, k), PAD_VECT))),
                       g, 1, fault.index)
    ELSE WindowPolygons(g, BlockWindow(g, k))

RECURSIVE BatchKept(_, _, _, _)
\* polys after the windows lo..hi, none of them raising outside a polygon
BatchKept(g, lo, hi, fault) ==
    IF lo > hi THEN <<>>
    ELSE WindowKept(g, lo, fault) \o BatchKept(g, lo + 1, hi, fault)

\* faulty variant: the polygons collected before the failure are returned
process_window_batch_partial(g, lo, hi, fault) ==
    IF EscapesPolygonTry(fault) /\ fault.window \in lo..hi
    THEN BatchKept(g, lo, fault.window - 1, fault)
    ELSE BatchKept(g, lo, hi, fault)

\* the list returned for the windows lo..hi of the mask raster g:
\* "except Exception as e: return []" discards polys
process_window_batch(g, lo, hi, fault) ==
    IF EscapesPolygonTry(fault) /\ fault.window \in lo..hi
    THEN <<>>
    ELSE BatchKept(g, lo, hi, fault)

\* len(batches)
NBatches(g) == (NBlocks(g) + BATCH_SIZE - 1) \div BATCH_SIZE

\* the first and the last window of batch b
BatchFirst(b) == (b - 1) * BATCH_SIZE + 1
BatchLast(g, b) == Min(b * BATCH_SIZE, NBlocks(g))

RECURSIVE AllPolygons(_, _, _)
\* all_polygons: the results of the batches b, b+1, ... in submission order
AllPolygons(g, b, fault) ==
    IF b > NBatches(g) THEN <<>>
    ELSE process_window_batch(g, BatchFirst(b), BatchLast(g, b), fault)
         \o AllPolygons(g, b + 1, fault)

\* the cells covered by a list of polygons
Cover(polys) == UNION { polys[k] : k \in DOMAIN polys }

\* unary_union(polys), as the list of its parts
unary_union(polys) == Components(Cover(polys))

RECURSIVE PartialUnions(_, _)
\* partial_unions of the fallback: one union per chunk of UNION_CHUNK polygons
PartialUnions(polys, lo) ==
    IF lo > Len(polys) THEN <<>>
    ELSE <<Cover(unary_union(SubSeq(polys, lo, Min(lo + UNION_CHUNK - 1, Len(polys)))))>>
         \o PartialUnions(polys, lo + UNION_CHUNK)

\* final_geoms: the bulk union, or the chunked one when the bulk union raised
FinalGeoms(polys, bulkRaised) ==
    IF bulkRaised THEN unary_union(PartialUnions(polys, 1)) ELSE unary_union(polys)

\* transform(project, .) and round_coords: EPSG:2154 -> EPSG:4326 taken as an
\* affine map around 44 N, 5.2 E.  The unit is a fifth of a metre of latitude;
\* a metre to the east is 7 units of longitude.
Project(x, y) == <<5200000 + 7 * x, 44100000 + 5 * y>>

\* the geometry the Classifier reads back from the written feature
GeoGeometry(poly, g) ==
    LET rows == { cell[1] : cell \in poly }
        cols == { cell[2] : cell \in poly }
        rmin == CHOOSE r \in rows : \A q \in rows : r <= q
        rmax == CHOOSE r \in rows : \A q \in rows : r >= q
        cmin == CHOOSE c \in cols : \A q \in cols : c <= q
        cmax == CHOOSE c \in cols : \A q \in cols : c >= q
        xmin == g.left + cmin * g.res
        xmax == g.left + (cmax + 1) * g.res
        ymax == g.top - rmin * g.res
        ymin == g.top - (rmax + 1) * g.res
    IN [raisesAt |-> "none", empty |-> FALSE, valid |-> TRUE,
        perim |-> (SidesAlongX(poly) * 7 + SidesAlongY(poly) * 5) * g.res,
        area |-> Cardinality(poly) * 35 * g.res * g.res,
        mrr |-> <<Project(xmin, ymin), Project(xmax, ymin), Project(xmax, ymax),
                  Project(xmin, ymax), Project(xmin, ymin)>>]

RECURSIVE ExportFeaturesUnfiltered(_, _)
\* faulty variant: the export loop without its two area tests
ExportFeaturesUnfiltered(final_geoms, g) ==
    IF final_geoms = <<>> THEN <<>>
    ELSE LET final_poly == Simplify(Head(final_geoms))
             area == Area(final_poly, g)
             perim == Perimeter(final_poly, g)
         IN <<[geometry |-> GeoGeometry(final_poly, g),
               properties |-> ExportProps(10 * perim, 100 * area)]>>
            \o ExportFeaturesUnfiltered(Tail(final_geoms), g)

RECURSIVE ExportFeatures(_, _)
\* the features written by the export loop, in order
ExportFeatures(final_geoms, g) ==
    IF final_geoms = <<>> THEN <<>>
    ELSE LET final_poly == Simplify(Head(final_geoms))
             area == Area(final_poly, g)
             perim == Perimeter(final_poly, g)
         IN (IF area < MIN_AREA \/ area > MAX_AREA THEN <<>>
             ELSE <<[geometry |-> GeoGeometry(final_poly, g),
                     properties |-> ExportProps(10 * perim, 100 * area)]>>)
            \o ExportFeatures(Tail(final_geoms), g)

(***************************************************************************)
(* Dashboard statistics and the Classifier over a whole collection         *)
(***************************************************************************)
\* total_count as etape_enrichissement uses it
EnrichCount(total_count, geojson) ==
    IF total_count = 0 /\ geojson # None THEN DashboardDefault ELSE total_count

\* the stats of etape_enrichissement (percentages in tenths)
EnrichStats(total_count) ==
    [total_points |-> total_count,
     histogram |-> <<[range |-> "Terrasses", count |-> total_count, percentage |-> 1000]>>,
     sector |-> total_count \div 4]

\* round(100 * n / max(total, 1), 1) in tenths, ties to even
Percentage(n, total) ==
    LET d == IF total > 1 THEN total ELSE 1
        q == (1000 * n) \div d
        r == (1000 * n) % d
    IN IF 2 * r < d THEN q
       ELSE IF 2 * r > d THEN q + 1
       ELSE IF q % 2 = 0 THEN q ELSE q + 1

RECURSIVE ClassifyAll(_, _)
\* the feature loop of etape_classification_mnt: one result per feature
ClassifyAll(feats, g) ==
    IF feats = <<>> THEN <<>>
    ELSE <<ClassifyFeature(Head(feats), g)>> \o ClassifyAll(Tail(feats), g)

\* the number of features with one of the given outcomes
CountOutcome(results, outcomes) ==
    Cardinality({ k \in DOMAIN results : results[k].outcome \in outcomes })

\* the features rewritten to FILE_GEOJSON
ClassifiedFeatures(feats, results) ==
    [k \in DOMAIN feats |-> [feats[k] EXCEPT !.properties = results[k].props]]

\* the stats written after classification
ClassifStats(results) ==
    LET total == Len(results)
        terrasses == CountOutcome(results, {"terrasse"})
        murs == CountOutcome(results, {"mur", "err"})
    IN [total_points |-> total,
        histogram |-> <<[range |-> "Terrasses", count |-> terrasses,
                         percentage |-> Percentage(terrasses, total)],
                        [range |-> "Murs", count |-> murs,
                         percentage |-> Percentage(murs, total)]>>,
        sector |-> total \div 4]

(***************************************************************************)
(* Inputs of the pipeline                                                  *)
(***************************************************************************)
\* a 4 x 2 raster of 4 m pixels in strips of one row, without a nodata value:
\* ground at 0 and a plateau of 5 m on the given columns
MntPlateau(cols) ==
    [nodata |-> None, width |-> 4, height |-> 2, left |-> 0, top |-> 8, res |-> 4,
     blockysize |-> 1,
     data |-> [row \in 0..1 |-> [col \in 0..3 |-> IF col \in cols THEN 5 * MmPerMetre ELSE 0]]]

\* flat ground (no break), one break strip, two break strips one pixel apart
MntPipelineInputs == { MntPlateau({}), MntPlateau({3}), MntPlateau({1}) }

\* the failures injected into the workers: at block 2 and at block 51, the
\* first block of the second batch
FaultInputs ==
    {NoFault}
    \cup { [kind |-> k, window |-> w, index |-> 0] : k \in {"read", "trace"}, w \in {2, 51} }
    \cup { [kind |-> "poly", window |-> w, index |-> 1] : w \in {2, 51} }

\* artifacts left by an earlier run on another elevation raster
OldPente == PenteOf(MntPlateau({2, 3}))
OldRuptures == RupturesOf(OldPente)
OldGeojson ==
    [features |-> ExportFeatures(unary_union(AllPolygons(OldRuptures, 1, NoFault)), OldRuptures)]

(***************************************************************************)
(* The pipeline (__main__): Spec.  A stage is one step.                    *)
(***************************************************************************)
Init ==
    /\ fileMnt \in {None} \cup { Some(g) : g \in MntPipelineInputs }
    /\ filePente \in {None, Some(OldPente)}
    /\ fileRuptures \in {None, Some(OldRuptures)}
    /\ fileGeojson \in {None, Some(OldGeojson)}
    /\ fileDashboard = None
    /\ pcMain = "pente"
    /\ run = 1
    /\ count = 0
    /\ opened = {}
    /\ written = {}
    /\ ClassifIdle
    /\ Run2Idle
    /\ query = NoQuery
    /\ MaskIdle
    /\ IOIdle

\* faulty variant: the recalculation forced whether or not the file exists
ask_skip_force(file) == TRUE

\* faulty variant: a file cut short by an interruption counts as absent
ask_skip_complete(file) == file = None \/ Len(file) = 2

\* ask_skip(filepath, step_name): False when the file exists
ask_skip(file) == file = None

\* whether a feature file lacks its closing "]}"
IsUnterminated(content) == "unterminated" \in DOMAIN content

EtapePente ==
    /\ pcMain = "pente"
    /\ IF ~ask_skip(filePente) \/ fileMnt = None
       THEN /\ opened' = {}
            /\ written' = {}
            /\ UNCHANGED filePente
       ELSE /\ opened' = {"MNT"}
            /\ written' = {"pente"}
            /\ filePente' = Some(PenteOf(fileMnt[1]))
    /\ pcMain' = "ruptures"
    /\ UNCHANGED <<fileMnt, fileRuptures, fileGeojson, fileDashboard, run, count>>
    /\ UNCHANGED <<clsVars, run2Vars, query, maskVars, ioVars>>

\* rasterio.open(FILE_PENTE) raises when the file is missing: nothing catches it
EtapeRuptures ==
    /\ pcMain = "ruptures"
    /\ IF ~ask_skip(fileRuptures)
       THEN /\ opened' = {}
            /\ written' = {}
            /\ pcMain' = "vectorisation"
            /\ UNCHANGED fileRuptures
       ELSE IF filePente = None
       THEN /\ opened' = {}
            /\ written' = {}
            /\ pcMain' = "crash"
            /\ UNCHANGED fileRuptures
       ELSE /\ opened' = {"pente"}
            /\ written' = {"ruptures"}
            /\ pcMain' = "vectorisation"
            /\ fileRuptures' = Some(RupturesOf(filePente[1]))
    /\ UNCHANGED <<fileMnt, filePente, fileGeojson, fileDashboard, run, count>>
    /\ UNCHANGED <<clsVars, run2Vars, query, maskVars, ioVars>>

\* fault: what fails in the workers; raised: "ok", "bulk" when only the bulk
\* union raised, "fallback" when a union of the fallback raised as well, which
\* nothing catches
EtapeVectorisation ==
    /\ pcMain = "vectorisation"
    /\ IF ~ask_skip(fileGeojson)
       THEN /\ opened' = {}
            /\ written' = {}
            /\ count' = 0
            /\ pcMain' = "enrichissement"
            /\ UNCHANGED fileGeojson
       ELSE IF fileRuptures = None
       THEN /\ opened' = {}
            /\ written' = {}
            /\ pcMain' = "crash"
            /\ UNCHANGED <<fileGeojson, count>>
       ELSE \E fault \in FaultInputs :
            LET src == fileRuptures[1]
                all_polygons == AllPolygons(src, 1, fault)
            IN /\ opened' = {"ruptures"}
               /\ IF all_polygons = <<>>
                  THEN /\ written' = {}
                       /\ count' = 0
                       /\ pcMain' = "enrichissement"
                       /\ UNCHANGED fileGeojson
                  ELSE \E raised \in {"ok", "bulk", "fallback"} :
                         IF raised = "fallback"
                         THEN /\ written' = {}
                              /\ pcMain' = "crash"
                              /\ UNCHANGED <<fileGeojson, count>>
                         ELSE LET feats == ExportFeatures(
                                             FinalGeoms(all_polygons, raised = "bulk"), src)
                              IN /\ written' = {"geojson"}
                                 /\ count' = Len(feats)
                                 /\ pcMain' = "enrichissement"
                                 /\ fileGeojson' = Some([features |-> feats])
    /\ UNCHANGED <<fileMnt, filePente, fileRuptures, fileDashboard, run>>
    /\ UNCHANGED <<clsVars, run2Vars, query, maskVars, ioVars>>

EtapeEnrichissement ==
    /\ pcMain = "enrichissement"
    /\ opened' = {}
    /\ written' = {"dashboard"}
    /\ fileDashboard' = Some(EnrichStats(EnrichCount(count, fileGeojson)))
    /\ pcMain' = "classification"
    /\ UNCHANGED <<fileMnt, filePente, fileRuptures, fileGeojson, run, count>>
    /\ UNCHANGED <<clsVars, run2Vars, query, maskVars, ioVars>>

\* json.load raises on a feature file without its closing "]}": nothing
\* catches it
EtapeClassificationMnt ==
    /\ pcMain = "classification"
    /\ IF fileGeojson = None \/ fileMnt = None
       THEN /\ opened' = {}
            /\ written' = {}
            /\ pcMain' = "emprise"
            /\ UNCHANGED <<fileGeojson, fileDashboard>>
       ELSE IF IsUnterminated(fileGeojson[1])
       THEN /\ opened' = {"geojson"}
            /\ written' = {}
            /\ pcMain' = "crash"
            /\ UNCHANGED <<fileGeojson, fileDashboard>>
       ELSE LET features_list == fileGeojson[1].features
                results == ClassifyAll(features_list, fileMnt[1])
            IN /\ opened' = {"geojson", "MNT"}
               /\ written' = {"geojson", "dashboard"}
               /\ pcMain' = "emprise"
               /\ fileGeojson' = Some([features |-> ClassifiedFeatures(features_list, results)])
               /\ fileDashboard' = Some(ClassifStats(results))
    /\ UNCHANGED <<fileMnt, filePente, fileRuptures, run, count>>
    /\ UNCHANGED <<clsVars, run2Vars, query, maskVars, ioVars>>

\* etape_emprise converts emprise_pnr.gpkg, when it exists, to emprise.geojson;
\* gpkg: whether it exists, readable: whether fiona reads it without raising
EtapeEmprise ==
    /\ pcMain = "emprise"
    /\ \E gpkg, readable \in BOOLEAN :
          /\ opened' = IF gpkg THEN {"emprise_pnr.gpkg"} ELSE {}
          /\ written' = IF gpkg /\ readable THEN {"emprise.geojson"} ELSE {}
    /\ pcMain' = "fini"
    /\ UNCHANGED <<fileVars, run, count>>
    /\ UNCHANGED <<clsVars, run2Vars, query, maskVars, ioVars>>

\* the program is started again on the same directory
Relancer ==
    /\ pcMain \in {"fini", "crash"}
    /\ run < MaxRuns
    /\ run' = run + 1
    /\ pcMain' = "pente"
    /\ count' = 0
    /\ opened' = {}
    /\ written' = {}
    /\ UNCHANGED fileVars
    /\ UNCHANGED <<clsVars, run2Vars, query, maskVars, ioVars>>

Next ==
    \/ EtapePente
    \/ EtapeRuptures
    \/ EtapeVectorisation
    \/ EtapeEnrichissement
    \/ EtapeClassificationMnt
    \/ EtapeEmprise
    \/ Relancer

Spec == Init /\ [][Next]_vars

(***************************************************************************)
(* The pipeline at the grain of file handles and worker processes: SpecIO. *)
(* A raster being written holds the rows of the blocks written so far.     *)
(***************************************************************************)
\* a 1 x 52 mask of 4 m pixels in strips of one row (52 blocks, two batches)
\* with the given rows at 1
MaskColumn(rows) ==
    [nodata |-> Some(0), width |-> 1, height |-> 52, left |-> 0, top |-> 208, res |-> 4,
     blockysize |-> 1,
     data |-> [row \in 0..51 |-> [col \in {0} |-> IF row \in rows THEN 1 ELSE 0]]]

\* no break; one polygon in the first batch; one polygon across the two
\* batches; two one-pixel fragments one pixel apart; one polygon per batch
MaskInputs ==
    { MaskColumn({}), MaskColumn({0, 1}), MaskColumn({49, 50}), MaskColumn({10, 12}),
      MaskColumn({0, 1, 50, 51}) }

Handle(file, mode, owner) == [file |-> file, mode |-> mode, owner |-> owner]

\* faulty variant: the worker opens the mask for update
WorkerHandleUpdate(b) == Handle("ruptures", "r+", b)

\* "with rasterio.open(file_path) as src" in the worker of batch b
WorkerHandle(b) == Handle("ruptures", "r", b)

\* faulty variant: every block written at the top of the raster
WithBlockAtTop(data, win, block) ==
    [row \in DOMAIN data \cup 0..(win.height - 1) |->
        IF row < win.height THEN block[row] ELSE data[row]]

\* the rows 0..n-1 of a raster's data, then the rows of one more block
WithBlock(data, win, block) ==
    [row \in 0..(win.row_off + win.height - 1) |->
        IF row < win.row_off THEN data[row] ELSE block[row - win.row_off]]

\* the text of the feature file before its closing "]}" is written
Unterminated(feats) == [features |-> feats, unterminated |-> TRUE]

RECURSIVE Collect(_, _)
\* "for res in results: all_polygons.extend(res)", results in submission order
Collect(t, b) == IF b > Len(t) THEN <<>> ELSE t[b].result \o Collect(t, b + 1)

InitIO ==
    /\ fileMnt \in {None} \cup { Some(g) : g \in MntPipelineInputs }
    /\ filePente \in {None, Some(OldPente)}
    /\ fileRuptures \in {None} \cup { Some(m) : m \in MaskInputs }
    /\ fileGeojson \in {None, Some(OldGeojson)}
    /\ fileDashboard = None
    /\ pcMain = "pente"
    /\ run = 1
    /\ count = 0
    /\ opened = {}
    /\ written = {}
    /\ handles = {}
    /\ bloc = 0
    /\ cpu \in 1..MaxWorkers
    /\ failure = NoFault
    /\ unions = "none"
    /\ tasks = <<>>
    /\ allPolygons = <<>>
    /\ finalGeoms = <<>>
    /\ pos = 0
    /\ ClassifIdle
    /\ Run2Idle
    /\ query = NoQuery
    /\ MaskIdle

\* etape_pente returns at once
PenteSkip ==
    /\ pcMain = "pente"
    /\ ~ask_skip(filePente) \/ fileMnt = None
    /\ pcMain' = "ruptures"
    /\ opened' = {}
    /\ written' = {}
    /\ UNCHANGED <<fileVars, run, count, ioVars>>
    /\ UNCHANGED <<clsVars, run2Vars, query, maskVars>>

\* the two "with rasterio.open" of etape_pente
PenteOpen ==
    /\ pcMain = "pente"
    /\ ask_skip(filePente) /\ fileMnt # None
    /\ handles' = handles \cup {Handle("MNT", "r", "main"), Handle("pente", "w", "main")}
    /\ filePente' = Some([fileMnt[1] EXCEPT !.data = <<>>])
    /\ bloc' = 0
    /\ pcMain' = "pente_blocs"
    /\ opened' = {"MNT"}
    /\ written' = {"pente"}
    /\ UNCHANGED <<fileMnt, fileRuptures, fileGeojson, fileDashboard, run, count>>
    /\ UNCHANGED <<cpu, failure, unions, tasks, allPolygons, finalGeoms, pos>>
    /\ UNCHANGED <<clsVars, run2Vars, query, maskVars>>

\* one iteration of the block loop of etape_pente
PenteBloc ==
    /\ pcMain = "pente_blocs"
    /\ bloc < NBlocks(fileMnt[1])
    /\ LET win == BlockWindow(fileMnt[1], bloc + 1)
       IN filePente' = Some([filePente[1] EXCEPT
                               !.data = WithBlock(@, win, SlopeBlock(fileMnt[1], win))])
    /\ bloc' = bloc + 1
    /\ UNCHANGED <<fileMnt, fileRuptures, fileGeojson, fileDashboard>>
    /\ UNCHANGED <<pcMain, run, count, opened, written>>
    /\ UNCHANGED <<handles, cpu, failure, unions, tasks, allPolygons, finalGeoms, pos>>
    /\ UNCHANGED <<clsVars, run2Vars, query, maskVars>>

\* the end of the two "with" blocks of etape_pente
PenteClose ==
    /\ pcMain = "pente_blocs"
    /\ bloc = NBlocks(fileMnt[1])
    /\ handles' = handles \ {Handle("MNT", "r", "main"), Handle("pente", "w", "main")}
    /\ bloc' = 0
    /\ pcMain' = "ruptures"
    /\ UNCHANGED <<fileVars, run, count, opened, written>>
    /\ UNCHANGED <<cpu, failure, unions, tasks, allPolygons, finalGeoms, pos>>
    /\ UNCHANGED <<clsVars, run2Vars, query, maskVars>>

\* etape_ruptures returns at once
RupturesSkip ==
    /\ pcMain = "ruptures"
    /\ ~ask_skip(fileRuptures)
    /\ pcMain' = "vectorisation"
    /\ opened' = {}
    /\ written' = {}
    /\ UNCHANGED <<fileVars, run, count, ioVars>>
    /\ UNCHANGED <<clsVars, run2Vars, query, maskVars>>

\* faulty variant: the stage returns when the slope grid is missing
RupturesReturn ==
    /\ pcMain = "ruptures"
    /\ ask_skip(fileRuptures) /\ filePente = None
    /\ pcMain' = "vectorisation"
    /\ opened' = {}
    /\ written' = {}
    /\ UNCHANGED <<fileVars, run, count, ioVars>>
    /\ UNCHANGED <<clsVars, run2Vars, query, maskVars>>

\* rasterio.open(FILE_PENTE) raises: the program ends
RupturesCrash ==
    /\ pcMain = "ruptures"
    /\ ask_skip(fileRuptures) /\ filePente = None
    /\ pcMain' = "crash"
    /\ opened' = {}
    /\ written' = {}
    /\ UNCHANGED <<fileVars, run, count, ioVars>>
    /\ UNCHANGED <<clsVars, run2Vars, query, maskVars>>

RupturesOpen ==
    /\ pcMain = "ruptures"
    /\ ask_skip(fileRuptures) /\ filePente # None
    /\ handles' = handles \cup {Handle("pente", "r", "main"), Handle("ruptures", "w", "main")}
    /\ fileRuptures' = Some([filePente[1] EXCEPT !.nodata = Some(0), !.data = <<>>])
    /\ bloc' = 0
    /\ pcMain' = "ruptures_blocs"
    /\ opened' = {"pente"}
    /\ written' = {"ruptures"}
    /\ UNCHANGED <<fileMnt, filePente, fileGeojson, fileDashboard, run, count>>
    /\ UNCHANGED <<cpu, failure, unions, tasks, allPolygons, finalGeoms, pos>>
    /\ UNCHANGED <<clsVars, run2Vars, query, maskVars>>

\* one iteration of the block loop of etape_ruptures
RupturesBloc ==
    /\ pcMain = "ruptures_blocs"
    /\ bloc < NBlocks(filePente[1])
    /\ LET win == BlockWindow(filePente[1], bloc + 1)
           data == [r \in 0..(win.height - 1) |-> filePente[1].data[win.row_off + r]]
           mask == [r \in 0..(win.height - 1) |-> Seuillage(data[r], SEUIL_PENTE)]
       IN fileRuptures' = Some([fileRuptures[1] EXCEPT !.data = WithBlock(@, win, mask)])
    /\ bloc' = bloc + 1
    /\ UNCHANGED <<fileMnt, filePente, fileGeojson, fileDashboard>>
    /\ UNCHANGED <<pcMain, run, count, opened, written>>
    /\ UNCHANGED <<handles, cpu, failure, unions, tasks, allPolygons, finalGeoms, pos>>
    /\ UNCHANGED <<clsVars, run2Vars, query, maskVars>>

RupturesClose ==
    /\ pcMain = "ruptures_blocs"
    /\ bloc = NBlocks(filePente[1])
    /\ handles' = handles \ {Handle("pente", "r", "main"), Handle("ruptures", "w", "main")}
    /\ bloc' = 0
    /\ pcMain' = "vectorisation"
    /\ UNCHANGED <<fileVars, run, count, opened, written>>
    /\ UNCHANGED <<cpu, failure, unions, tasks, allPolygons, finalGeoms, pos>>
    /\ UNCHANGED <<clsVars, run2Vars, query, maskVars>>

\* etape_vectorisation returns 0 at once: the feature file exists
VectSkip ==
    /\ pcMain = "vectorisation"
    /\ ~ask_skip(fileGeojson)
    /\ count' = 0
    /\ pcMain' = "enrichissement"
    /\ opened' = {}
    /\ written' = {}
    /\ UNCHANGED <<fileVars, run, ioVars>>
    /\ UNCHANGED <<clsVars, run2Vars, query, maskVars>>

\* the driver opens the mask to list its block windows; the mask exists, for
\* etape_ruptures has returned
VectOpen ==
    /\ pcMain = "vectorisation"
    /\ ask_skip(fileGeojson) /\ fileRuptures # None
    /\ handles' = handles \cup {Handle("ruptures", "r", "main")}
    /\ pcMain' = "fenetres"
    /\ opened' = {"ruptures"}
    /\ written' = {}
    /\ UNCHANGED <<fileVars, run, count>>
    /\ UNCHANGED <<bloc, cpu, failure, unions, tasks, allPolygons, finalGeoms, pos>>
    /\ UNCHANGED <<clsVars, run2Vars, query, maskVars>>

\* the driver closes the mask, cuts the windows in batches and hands them to
\* the pool; what will fail in the workers is fixed here
PoolStart ==
    /\ pcMain = "fenetres"
    /\ handles' = handles \ {Handle("ruptures", "r", "main")}
    /\ tasks' = [b \in 1..NBatches(fileRuptures[1]) |-> [state |-> "pending", result |-> <<>>]]
    /\ failure' \in FaultInputs
    /\ pcMain' = "pool"
    /\ UNCHANGED <<fileVars, run, count, opened, written>>
    /\ UNCHANGED <<bloc, cpu, unions, allPolygons, finalGeoms, pos>>
    /\ UNCHANGED <<clsVars, run2Vars, query, maskVars>>

Running == { b \in DOMAIN tasks : tasks[b].state = "running" }

\* faulty variant: a batch that ends while another one runs loses its polygons
WorkerResultShared(b) ==
    IF Running \ {b} # {} THEN <<>>
    ELSE process_window_batch(fileRuptures[1], BatchFirst(b),
                              BatchLast(fileRuptures[1], b), failure)

\* what the worker of batch b returns
WorkerResult(b) ==
    process_window_batch(fileRuptures[1], BatchFirst(b), BatchLast(fileRuptures[1], b), failure)

\* a free worker of the pool takes batch b and opens the mask
WorkerStart(b) ==
    /\ pcMain = "pool"
    /\ tasks[b].state = "pending"
    /\ Cardinality(Running) < cpu
    /\ tasks' = [tasks EXCEPT ![b].state = "running"]
    /\ handles' = handles \cup {WorkerHandle(b)}
    /\ UNCHANGED <<pipeVars, bloc, cpu, failure, unions, allPolygons, finalGeoms, pos>>
    /\ UNCHANGED <<clsVars, run2Vars, query, maskVars>>

\* the worker of batch b returns and its handle is closed
WorkerFinish(b) ==
    /\ pcMain = "pool"
    /\ tasks[b].state = "running"
    /\ tasks' = [tasks EXCEPT ![b] = [state |-> "done", result |-> WorkerResult(b)]]
    /\ handles' = handles \ {WorkerHandle(b)}
    /\ UNCHANGED <<pipeVars, bloc, cpu, failure, unions, allPolygons, finalGeoms, pos>>
    /\ UNCHANGED <<clsVars, run2Vars, query, maskVars>>

\* faulty variant: the results are collected as soon as one batch is done
PoolJoinEarly ==
    /\ pcMain = "pool"
    /\ \E b \in DOMAIN tasks : tasks[b].state = "done"
    /\ allPolygons' = Collect(tasks, 1)
    /\ pcMain' = "fusion"
    /\ UNCHANGED <<fileVars, run, count, opened, written>>
    /\ UNCHANGED <<handles, bloc, cpu, failure, unions, tasks, finalGeoms, pos>>
    /\ UNCHANGED <<clsVars, run2Vars, query, maskVars>>

\* pool.map returns once every batch is done
PoolJoin ==
    /\ pcMain = "pool"
    /\ \A b \in DOMAIN tasks : tasks[b].state = "done"
    /\ allPolygons' = Collect(tasks, 1)
    /\ pcMain' = "fusion"
    /\ UNCHANGED <<fileVars, run, count, opened, written>>
    /\ UNCHANGED <<handles, bloc, cpu, failure, unions, tasks, finalGeoms, pos>>
    /\ UNCHANGED <<clsVars, run2Vars, query, maskVars>>

\* no polygon: return 0; else the bulk union and, when it raises, the fallback
Fusion ==
    /\ pcMain = "fusion"
    /\ IF allPolygons = <<>>
       THEN /\ count' = 0
            /\ pcMain' = "enrichissement"
            /\ UNCHANGED <<unions, finalGeoms>>
       ELSE /\ unions' \in {"ok", "bulk", "fallback"}
            /\ IF unions' = "fallback"
               THEN /\ pcMain' = "crash"
                    /\ UNCHANGED finalGeoms
               ELSE /\ pcMain' = "export"
                    /\ finalGeoms' = FinalGeoms(allPolygons, unions' = "bulk")
            /\ UNCHANGED count
    /\ UNCHANGED <<fileVars, run, opened, written>>
    /\ UNCHANGED <<handles, bloc, cpu, failure, tasks, allPolygons, pos>>
    /\ UNCHANGED <<clsVars, run2Vars, query, maskVars>>

\* open(FILE_GEOJSON, 'w') and the header of the feature collection
ExportOpen ==
    /\ pcMain = "export"
    /\ handles' = handles \cup {Handle("geojson", "w", "main")}
    /\ fileGeojson' = Some(Unterminated(<<>>))
    /\ pos' = 0
    /\ pcMain' = "export_boucle"
    /\ written' = {"geojson"}
    /\ UNCHANGED <<fileMnt, filePente, fileRuptures, fileDashboard, run, count, opened>>
    /\ UNCHANGED <<bloc, cpu, failure, unions, tasks, allPolygons, finalGeoms>>
    /\ UNCHANGED <<clsVars, run2Vars, query, maskVars>>

\* one iteration of the export loop; raises: the body raised and the polygon
\* is passed over
ExportNext ==
    /\ pcMain = "export_boucle"
    /\ pos < Len(finalGeoms)
    /\ \E raises \in BOOLEAN :
         LET feats == IF raises THEN <<>>
                      ELSE ExportFeatures(<<finalGeoms[pos + 1]>>, fileRuptures[1])
         IN fileGeojson' = Some(Unterminated(fileGeojson[1].features \o feats))
    /\ pos' = pos + 1
    /\ UNCHANGED <<fileMnt, filePente, fileRuptures, fileDashboard>>
    /\ UNCHANGED <<pcMain, run, count, opened, written>>
    /\ UNCHANGED <<handles, bloc, cpu, failure, unions, tasks, allPolygons, finalGeoms>>
    /\ UNCHANGED <<clsVars, run2Vars, query, maskVars>>

\* the closing "]}" and f_out.close(); return count_saved
ExportClose ==
    /\ pcMain = "export_boucle"
    /\ pos = Len(finalGeoms)
    /\ fileGeojson' = Some([features |-> fileGeojson[1].features])
    /\ handles' = handles \ {Handle("geojson", "w", "main")}
    /\ count' = Len(fileGeojson[1].features)
    /\ pcMain' = "enrichissement"
    /\ UNCHANGED <<fileMnt, filePente, fileRuptures, fileDashboard, run, opened, written>>
    /\ UNCHANGED <<bloc, cpu, failure, unions, tasks, allPolygons, finalGeoms, pos>>
    /\ UNCHANGED <<clsVars, run2Vars, query, maskVars>>

NextIO ==
    \/ PenteSkip
    \/ PenteOpen
    \/ PenteBloc
    \/ PenteClose
    \/ RupturesSkip
    \/ RupturesCrash
    \/ RupturesOpen
    \/ RupturesBloc
    \/ RupturesClose
    \/ VectSkip
    \/ VectOpen
    \/ PoolStart
    \/ \E b \in DOMAIN tasks : WorkerStart(b)
    \/ \E b \in DOMAIN tasks : WorkerFinish(b)
    \/ PoolJoin
    \/ Fusion
    \/ ExportOpen
    \/ ExportNext
    \/ ExportClose
    \/ EtapeEnrichissement
    \/ EtapeClassificationMnt
    \/ EtapeEmprise

SpecIO == InitIO /\ [][NextIO]_vars

(***************************************************************************)
(* The export loop on merged polygons of chosen areas: SpecExport          *)
(***************************************************************************)
\* the grid of 2 m pixels the merged polygons lie on
ExportGrid ==
    [nodata |-> Some(0), width |-> 51, height |-> 60 * MaxGeoms, left |-> 0,
     top |-> 120 * MaxGeoms, res |-> 2, blockysize |-> 1, data |-> <<>>]

\* a rectangle of h x w pixels whose first row is r0
Rect(h, w, r0) == { <<r, c>> : r \in r0..(r0 + h - 1), c \in 0..(w - 1) }

\* rectangles of 16, 20, 24, 10000 and 10200 m2 on ExportGrid
ExportShapes == { <<1, 4>>, <<1, 5>>, <<1, 6>>, <<50, 50>>, <<50, 51>> }

\* lists of disjoint merged polygons, one every 60 rows
ExportInputs ==
    UNION { { [j \in 1..n |-> Rect(sh[j][1], sh[j][2], 60 * (j - 1))] :
              sh \in [1..n -> ExportShapes] } : n \in 1..MaxGeoms }

InitExport ==
    /\ fileMnt = None
    /\ filePente = None
    /\ fileRuptures = Some(ExportGrid)
    /\ fileGeojson = None
    /\ fileDashboard = None
    /\ pcMain = "export"
    /\ run = 1
    /\ count = 0
    /\ opened = {"ruptures"}
    /\ written = {}
    /\ handles = {}
    /\ bloc = 0
    /\ cpu = 1
    /\ failure = NoFault
    /\ unions = "ok"
    /\ tasks = <<>>
    /\ allPolygons = <<>>
    /\ finalGeoms \in ExportInputs
    /\ pos = 0
    /\ ClassifIdle
    /\ Run2Idle
    /\ query = NoQuery
    /\ MaskIdle

NextExport ==
    \/ ExportOpen
    \/ ExportNext
    \/ ExportClose

SpecExport == InitExport /\ [][NextExport]_vars

(***************************************************************************)
(* The export loop at the grain of the writes to f_out: SpecStream.  The   *)
(* text of the file is kept as the list of the pieces written: "header",   *)
(* "sep" (',\n'), "feature" (one json.dump), "partial" (a json.dump that   *)
(* raised after writing some of its text) and "close" ('\n]}').            *)
(***************************************************************************)
\* where the body of the loop raises: nowhere, in a geometry call of lines
\* 284-303, or in json.dump
RaisePoints == {"none", "geometry", "dump"}

\* open(FILE_GEOJSON, 'w'), the header, first = True, count_saved = 0
StreamOpen ==
    /\ pcMain = "export"
    /\ handles' = handles \cup {Handle("geojson", "w", "main")}
    /\ fileGeojson' = Some([features |-> <<>>, unterminated |-> TRUE, text |-> <<"header">>])
    /\ pos' = 0
    /\ count' = 0
    /\ pcMain' = "export_boucle"
    /\ written' = {"geojson"}
    /\ UNCHANGED <<fileMnt, filePente, fileRuptures, fileDashboard, run, opened>>
    /\ UNCHANGED <<bloc, cpu, failure, unions, tasks, allPolygons, finalGeoms>>
    /\ UNCHANGED <<clsVars, run2Vars, query, maskVars>>

\* one iteration of the export loop.  count is count_saved and first is
\* count_saved = 0: both change together, after json.dump has returned
StreamNext ==
    /\ pcMain = "export_boucle"
    /\ pos < Len(finalGeoms)
    /\ \E raises \in RaisePoints, partial \in BOOLEAN :
         LET feats == ExportFeatures(<<finalGeoms[pos + 1]>>, fileRuptures[1])
             old == fileGeojson[1]
             sep == IF count = 0 THEN <<>> ELSE <<"sep">>
         IN IF raises = "geometry" \/ feats = <<>>
            THEN /\ partial = FALSE
                 /\ UNCHANGED <<fileGeojson, count>>
            ELSE IF raises = "dump"
            THEN /\ fileGeojson' = Some([old EXCEPT !.text =
                        old.text \o sep \o (IF partial THEN <<"partial">> ELSE <<>>)])
                 /\ UNCHANGED count
            ELSE /\ partial = FALSE
                 /\ fileGeojson' = Some([old EXCEPT !.features = old.features \o feats,
                                                    !.text = old.text \o sep \o <<"feature">>])
                 /\ count' = count + 1
    /\ pos' = pos + 1
    /\ UNCHANGED <<fileMnt, filePente, fileRuptures, fileDashboard>>
    /\ UNCHANGED <<pcMain, run, opened, written>>
    /\ UNCHANGED <<handles, bloc, cpu, failure, unions, tasks, allPolygons, finalGeoms>>
    /\ UNCHANGED <<clsVars, run2Vars, query, maskVars>>

\* the closing '\n]}', the file closed, return count_saved
StreamClose ==
    /\ pcMain = "export_boucle"
    /\ pos = Len(finalGeoms)
    /\ fileGeojson' = Some([features |-> fileGeojson[1].features,
                            text |-> fileGeojson[1].text \o <<"close">>])
    /\ handles' = handles \ {Handle("geojson", "w", "main")}
    /\ pcMain' = "enrichissement"
    /\ UNCHANGED <<fileMnt, filePente, fileRuptures, fileDashboard, run, count, opened, written>>
    /\ UNCHANGED <<bloc, cpu, failure, unions, tasks, allPolygons, finalGeoms, pos>>
    /\ UNCHANGED <<clsVars, run2Vars, query, maskVars>>

NextStream == StreamOpen \/ StreamNext \/ StreamClose

SpecStream == InitExport /\ [][NextStream]_vars

(***************************************************************************)
(* From the export to the classifier on one grid extent: SpecCrs.  The     *)
(* elevation raster covers ExportGrid and rises by half a metre per row.   *)
(***************************************************************************)
MntSlopeGrid ==
    [nodata |-> Some(NoDataValue), width |-> ExportGrid.width, height |-> ExportGrid.height,
     left |-> ExportGrid.left, top |-> ExportGrid.top, res |-> ExportGrid.res,
     blockysize |-> 1,
     data |-> [row \in 0..(ExportGrid.height - 1) |->
                 [col \in 0..(ExportGrid.width - 1) |-> 100 * MmPerMetre + 500 * row]]]

InitCrs ==
    /\ fileMnt = Some(MntSlopeGrid)
    /\ filePente = None
    /\ fileRuptures = Some(ExportGrid)
    /\ fileGeojson = None
    /\ fileDashboard = None
    /\ pcMain = "export"
    /\ run = 1
    /\ count = 0
    /\ opened = {"ruptures"}
    /\ written = {}
    /\ handles = {}
    /\ bloc = 0
    /\ cpu = 1
    /\ failure = NoFault
    /\ unions = "ok"
    /\ tasks = <<>>
    /\ allPolygons = <<>>
    /\ finalGeoms \in ExportInputs
    /\ pos = 0
    /\ ClassifIdle
    /\ Run2Idle
    /\ query = NoQuery
    /\ MaskIdle

NextCrs ==
    \/ ExportOpen
    \/ ExportNext
    \/ ExportClose
    \/ EtapeEnrichissement
    \/ EtapeClassificationMnt

SpecCrs == InitCrs /\ [][NextCrs]_vars

(***************************************************************************)
(* Interruption of a run and the run that follows: SpecResume.  A raster   *)
(* cut short is kept as <<content, "tronque">>; what a later reader gets   *)
(* from it is not fixed by the program: the open raises, or the blocks     *)
(* never written read as zero.                                             *)
(***************************************************************************)
Tronque(file) == file # None /\ Len(file) = 2

\* a raster whose unwritten rows read as zero
ZeroFilled(g) ==
    [g EXCEPT !.data = [row \in 0..(g.height - 1) |->
        IF row \in DOMAIN g.data THEN g.data[row] ELSE [col \in 0..(g.width - 1) |-> 0]]]

CutShort(file) == <<ZeroFilled(file[1]), "tronque">>

\* the positions of __main__ inside a stage that writes a file
MidStage ==
    {"pente_blocs", "ruptures_blocs", "fenetres", "pool", "fusion", "export", "export_boucle"}

InitResume ==
    /\ fileMnt \in {None, Some(MntPlateau({})), Some(MntPlateau({3}))}
    /\ filePente \in {None, Some(OldPente)}
    /\ fileRuptures = None
    /\ fileGeojson = None
    /\ fileDashboard = None
    /\ pcMain = "pente"
    /\ run = 1
    /\ count = 0
    /\ opened = {}
    /\ written = {}
    /\ IOIdle
    /\ ClassifIdle
    /\ Run2Idle
    /\ query = NoQuery
    /\ MaskIdle

\* the process is killed inside a stage: its handles are gone, the file it
\* was writing stays as far as it was written
Interrompre ==
    /\ pcMain \in MidStage
    /\ filePente' = IF pcMain = "pente_blocs" THEN CutShort(filePente) ELSE filePente
    /\ fileRuptures' = IF pcMain = "ruptures_blocs" THEN CutShort(fileRuptures)
                       ELSE fileRuptures
    /\ handles' = {}
    /\ pcMain' = "interrompu"
    /\ UNCHANGED <<fileMnt, fileGeojson, fileDashboard, run, count, opened, written>>
    /\ UNCHANGED <<bloc, cpu, failure, unions, tasks, allPolygons, finalGeoms, pos>>
    /\ UNCHANGED <<clsVars, run2Vars, query, maskVars>>

\* the program is started again on the same directory
Redemarrer ==
    /\ pcMain = "interrompu"
    /\ run < MaxRuns
    /\ run' = run + 1
    /\ pcMain' = "pente"
    /\ count' = 0
    /\ opened' = {}
    /\ written' = {}
    /\ bloc' = 0
    /\ failure' = NoFault
    /\ unions' = "none"
    /\ tasks' = <<>>
    /\ allPolygons' = <<>>
    /\ finalGeoms' = <<>>
    /\ pos' = 0
    /\ UNCHANGED <<fileVars, handles, cpu>>
    /\ UNCHANGED <<clsVars, run2Vars, query, maskVars>>

\* rasterio.open(FILE_PENTE) raises on the slope grid cut short
RupturesIllisible ==
    /\ pcMain = "ruptures"
    /\ ask_skip(fileRuptures) /\ Tronque(filePente)
    /\ pcMain' = "crash"
    /\ opened' = {}
    /\ written' = {}
    /\ UNCHANGED <<fileVars, run, count, ioVars>>
    /\ UNCHANGED <<clsVars, run2Vars, query, maskVars>>

\* rasterio.open(FILE_RUPTURES) raises on the mask cut short
VectIllisible ==
    /\ pcMain = "vectorisation"
    /\ ask_skip(fileGeojson) /\ Tronque(fileRuptures)
    /\ pcMain' = "crash"
    /\ opened' = {}
    /\ written' = {}
    /\ UNCHANGED <<fileVars, run, count, ioVars>>
    /\ UNCHANGED <<clsVars, run2Vars, query, maskVars>>

NextResume ==
    \/ NextIO
    \/ Interrompre
    \/ Redemarrer
    \/ RupturesIllisible
    \/ VectIllisible

SpecResume == InitResume /\ [][NextResume]_vars

(***************************************************************************)
(* The slope stage alone, on rasters cut into strips of every height:      *)
(* SpecSlope                                                               *)
(***************************************************************************)
\* the rows a raster of the model is made of: flat low, flat high, a ramp
SlopeRows ==
    { [col \in 0..2 |-> 0], [col \in 0..2 |-> 5 * MmPerMetre],
      [col \in 0..2 |-> IF col = 0 THEN 0 ELSE IF col = 1 THEN 2 * MmPerMetre
                                                           ELSE 5 * MmPerMetre] }

\* 4 x 3 rasters of 4 m pixels, with or without a nodata value, in strips of
\* 1 to MaxBlockRows rows
SlopeInputs ==
    { [nodata |-> nd, width |-> 3, height |-> 4, left |-> 0, top |-> 16, res |-> 4,
       blockysize |-> bs, data |-> [row \in 0..3 |-> rows[row]]] :
      nd \in {None, Some(-MmPerMetre)}, bs \in 1..MaxBlockRows,
      rows \in [0..3 -> SlopeRows] }

InitSlope ==
    /\ fileMnt \in { Some(g) : g \in SlopeInputs }
    /\ filePente = None
    /\ fileRuptures = None
    /\ fileGeojson = None
    /\ fileDashboard = None
    /\ pcMain = "pente"
    /\ run = 1
    /\ count = 0
    /\ opened = {}
    /\ written = {}
    /\ IOIdle
    /\ ClassifIdle
    /\ Run2Idle
    /\ query = NoQuery
    /\ MaskIdle

NextSlope ==
    \/ PenteOpen
    \/ PenteBloc
    \/ PenteClose

SpecSlope == InitSlope /\ [][NextSlope]_vars

(***************************************************************************)
(* The worker pool of the vectorisation stage under fair scheduling:       *)
(* SpecPool.  The pool hands a pending batch to a free worker, a worker    *)
(* that has started returns, and the blocking map returns once every       *)
(* result is there.                                                        *)
(***************************************************************************)
InitPool ==
    /\ fileMnt = None
    /\ filePente = None
    /\ fileRuptures \in { Some(m) : m \in MaskInputs }
    /\ fileGeojson = None
    /\ fileDashboard = None
    /\ pcMain = "vectorisation"
    /\ run = 1
    /\ count = 0
    /\ opened = {}
    /\ written = {}
    /\ handles = {}
    /\ bloc = 0
    /\ cpu \in 1..MaxWorkers
    /\ failure = NoFault
    /\ unions = "none"
    /\ tasks = <<>>
    /\ allPolygons = <<>>
    /\ finalGeoms = <<>>
    /\ pos = 0
    /\ ClassifIdle
    /\ Run2Idle
    /\ query = NoQuery
    /\ MaskIdle

NextPool ==
    \/ VectOpen
    \/ PoolStart
    \/ \E b \in DOMAIN tasks : WorkerStart(b)
    \/ \E b \in DOMAIN tasks : WorkerFinish(b)
    \/ PoolJoin
    \/ Fusion

\* the executor hands a pending batch to a free worker and its map returns
\* when every result is there; whether a worker returns is left to the worker
SpecPool ==
    /\ InitPool
    /\ [][NextPool]_vars
    /\ \A b \in 1..NBatches(MaskColumn({})) : WF_vars(WorkerStart(b))
    /\ WF_vars(PoolJoin)

(***************************************************************************)
(* The classifier run again on the collection it rewrote: SpecRerun.       *)
(* features2 keeps the collection as the Exporter wrote it.                *)
(***************************************************************************)
\* the stats written after classification, from the counters of the loop
CounterStats(total, terrasses, murs) ==
    [total_points |-> total,
     histogram |-> <<[range |-> "Terrasses", count |-> terrasses,
                      percentage |-> Percentage(terrasses, total)],
                     [range |-> "Murs", count |-> murs,
                      percentage |-> Percentage(murs, total)]>>,
     sector |-> total \div 4]

InitRerun ==
    /\ fileMnt \in { Some(g) : g \in MntUniformInputs }
    /\ filePente = None
    /\ fileRuptures = None
    /\ fileGeojson \in { Some([features |-> l]) : l \in FeatureLists }
    /\ fileDashboard = None
    /\ pcMain = "classification"
    /\ run = 1
    /\ count = 0
    /\ opened = {}
    /\ written = {}
    /\ features = <<>>
    /\ mnt = MntElsewhere
    /\ i = 1
    /\ pc = "done"
    /\ CountersZero
    /\ ran = <<>>
    /\ features2 = fileGeojson[1].features
    /\ mnt2 = MntElsewhere
    /\ query = NoQuery
    /\ MaskIdle
    /\ IOIdle

\* json.load(FILE_GEOJSON), the counters set to 0, rasterio.open(FILE_MNT)
ClassifLoad ==
    /\ pcMain = "classification"
    /\ fileGeojson # None /\ fileMnt # None
    /\ features' = fileGeojson[1].features
    /\ mnt' = fileMnt[1]
    /\ i' = 1
    /\ pc' = "loop"
    /\ count_terrasse' = 0
    /\ count_mur' = 0
    /\ count_err' = 0
    /\ count_sliver' = 0
    /\ ran' = <<>>
    /\ opened' = {"geojson", "MNT"}
    /\ written' = {}
    /\ pcMain' = "classification_boucle"
    /\ UNCHANGED <<fileVars, run, count, run2Vars, query, maskVars, ioVars>>

\* the loop is over: json.dump(geojson_data) and the dashboard stats
ClassifRewrite ==
    /\ pcMain = "classification_boucle"
    /\ pc = "loop"
    /\ i > Len(features)
    /\ fileGeojson' = Some([features |-> features])
    /\ fileDashboard' = Some(CounterStats(Len(features), count_terrasse,
                                          count_mur + count_err))
    /\ written' = {"geojson", "dashboard"}
    /\ pc' = "done"
    /\ pcMain' = "emprise"
    /\ UNCHANGED <<fileMnt, filePente, fileRuptures, run, count, opened>>
    /\ UNCHANGED <<features, mnt, i, count_terrasse, count_mur, count_err,
                   count_sliver, ran, run2Vars, query, maskVars, ioVars>>

\* the program is started again: the stages before the classifier skip on
\* the files that exist and the classifier is called on its own output
RelancerClassif ==
    /\ pcMain = "emprise"
    /\ run < MaxRuns
    /\ run' = run + 1
    /\ pcMain' = "classification"
    /\ opened' = {}
    /\ written' = {}
    /\ UNCHANGED <<fileVars, count>>
    /\ UNCHANGED <<clsVars, run2Vars, query, maskVars, ioVars>>

NextRerun == ClassifLoad \/ ClassifyStep \/ ClassifRewrite \/ RelancerClassif

SpecRerun == InitRerun /\ [][NextRerun]_vars

(***************************************************************************)
(* Properties of the classifier                                            *)
(***************************************************************************)
\* feature k has been through the loop body
Processed(k) == k \in 1..Len(features) /\ k < i

\* shape() returned a geometry that passes the guard
ValidNonEmpty(geom) == geom.raisesAt # "shape" /\ ~geom.empty /\ geom.valid

\* P / sqrt(A) > 20, stated on the squares
SliverShape(geom) == geom.area > 0 /\ geom.perim * geom.perim > 400 * geom.area

\* the steps after the sliver test
LaterSteps == {"mrr", "probe", "decision"}

\* C1: a valid, non-empty polygon with P/sqrt(A) > 20 is labelled wall (c = 'm')
\* whatever its compactness, and neither the bounding rectangle, nor the probe,
\* nor the gc decision is run for it.
C1_SliverIsWall ==
    \A k \in 1..Len(features) :
        (Processed(k) /\ ValidNonEmpty(features[k].geometry)
            /\ SliverShape(features[k].geometry))
        => /\ features[k].properties["c"] = "m"
           /\ ran[k] \cap LaterSteps = {}

C1_Witness ==
    \E k \in 1..Len(features) :
        /\ Processed(k) /\ ValidNonEmpty(features[k].geometry)
        /\ SliverShape(features[k].geometry)
        /\ GcScoreMilli(features[k].geometry.perim, features[k].geometry.area) > GcCutoffMilli
        /\ features[k].properties["c"] = "m"

\* no geometry call raises and the bounding rectangle has an axis of length > 0
WellBehaved(geom) ==
    /\ geom.raisesAt = "none"
    /\ geom.mrr[1] # geom.mrr[2] \/ geom.mrr[2] # geom.mrr[3]

ReachesDecision(geom) == ValidNonEmpty(geom) /\ ~SliverShape(geom) /\ WellBehaved(geom)

C3_BoundaryIsWall ==
    /\ \A k \in 1..Len(features) :
          (Processed(k) /\ ValidNonEmpty(features[k].geometry)
              /\ GcScoreMilli(features[k].geometry.perim, features[k].geometry.area)
                    <= GcCutoffMilli)
          => features[k].properties["c"] = "m"
    /\ \A j, k \in 1..Len(features) :
          (Processed(j) /\ Processed(k) /\ features[j].geometry = features[k].geometry)
          => features[j].properties["c"] = features[k].properties["c"]

C3_Witness ==
    \E k \in 1..Len(features) :
        /\ Processed(k) /\ ReachesDecision(features[k].geometry)
        /\ GcScoreMilli(features[k].geometry.perim, features[k].geometry.area) = GcCutoffMilli
        /\ "decision" \in ran[k]
        /\ features[k].properties["c"] = "m"

\* C5: a feature whose geometry is empty or invalid is labelled wall with
\* de = 0, adds one to the error count and to no other count, runs none of the
\* later steps, and the loop goes on to the next feature.
C5_Guard ==
    [][ (pc = "loop" /\ i <= Len(features)
            /\ features[i].geometry.raisesAt # "shape"
            /\ (features[i].geometry.empty \/ ~features[i].geometry.valid))
        => /\ features'[i].properties["c"] = "m"
           /\ features'[i].properties["de"] = 0
           /\ count_err' = count_err + 1
           /\ count_mur' = count_mur
           /\ count_terrasse' = count_terrasse
           /\ count_sliver' = count_sliver
           /\ ran'[i] = {"guard"}
           /\ i' = i + 1
           /\ pc' = "loop" ]_vars

C5_Witness ==
    /\ Len(features) = 2
    /\ i = 3
    /\ ~features[1].geometry.valid
    /\ ran[1] = {"guard"}
    /\ count_err = 1
    /\ "decision" \in ran[2]

\* C8: every feature the classifier has processed, on every path, carries
\* c in {'t', 'm'}, gc and de.
C8_FieldsPresent ==
    \A k \in 1..Len(features) :
        Processed(k)
        => /\ {"c", "gc", "de"} \subseteq DOMAIN features[k].properties
           /\ features[k].properties["c"] \in {"t", "m"}

C8_Witness ==
    /\ Len(features) = 2
    /\ i = 3
    /\ ran[1] = {"except"}
    /\ ran[2] \in {{"guard"}, {"guard", "sliver"}, {"guard", "sliver", "mrr"}}
    /\ "gc" \in DOMAIN features[1].properties
    /\ "gc" \in DOMAIN features[2].properties

(***************************************************************************)
(* Properties of the probe (SpecProbe) and of read_elev (SpecElev)         *)
(***************************************************************************)
\* the properties other than the diagnostic delta
NonDeltaKeys(props) == DOMAIN props \ {"de"}

\* C4: two runs on the same geometry with two elevation grids give the same
\* c, t and gc (and every other property); only de may differ.
C4_ProbeNotDecisive ==
    pc = "done"
    => LET p1 == features[1].properties
           p2 == features2[1].properties
       IN /\ NonDeltaKeys(p1) = NonDeltaKeys(p2)
          /\ \A key \in NonDeltaKeys(p1) : p1[key] = p2[key]
          /\ {"c", "t"} \subseteq DOMAIN p1

C4_Witness ==
    /\ pc = "done"
    /\ mnt # mnt2
    /\ "decision" \in ran[1]
    /\ features[1].properties["de"] # features2[1].properties["de"]
    /\ features[1].properties["c"] = "t"
    /\ features2[1].properties["c"] = "t"

\* the stations of a polygon where both samples are valid readings
Contributing(g, geom) ==
    { k \in 1..3 : LET pair == ProbePair(g, PrincipalAxis(geom.mrr), k)
                   IN pair[1] # None /\ pair[2] # None }

\* the absolute elevation difference at station k (millimetres)
DiffAt(g, geom, k) ==
    LET pair == ProbePair(g, PrincipalAxis(geom.mrr), k)
    IN Abs(pair[1][1] - pair[2][1])

\* the median of the contributed differences: the middle one of three, the
\* mean of two, the value itself for one, 0 for none
MedianDiff(g, geom) ==
    LET S == Contributing(g, geom)
    IN IF S = {} THEN 0
       ELSE IF Cardinality(S) = 2
            THEN LET k1 == CHOOSE k \in S : TRUE
                     k2 == CHOOSE k \in S : k # k1
                 IN (DiffAt(g, geom, k1) + DiffAt(g, geom, k2)) \div 2
       ELSE LET km == CHOOSE k \in S :
                         /\ 2 * Cardinality({j \in S : DiffAt(g, geom, j) <= DiffAt(g, geom, k)})
                               >= Cardinality(S)
                         /\ 2 * Cardinality({j \in S : DiffAt(g, geom, j) >= DiffAt(g, geom, k)})
                               >= Cardinality(S)
            IN DiffAt(g, geom, km)

\* the contributed difference of rank n div 2 (counting from 0) among n: the
\* middle one of three, the larger of two, the value itself for one, 0 for none
UpperMedianDiff(g, geom) ==
    LET S == Contributing(g, geom)
        n == Cardinality(S)
    IN IF S = {} THEN 0
       ELSE LET km == CHOOSE k \in S :
                         /\ Cardinality({j \in S : DiffAt(g, geom, j) < DiffAt(g, geom, k)})
                               <= n \div 2
                         /\ Cardinality({j \in S : DiffAt(g, geom, j) <= DiffAt(g, geom, k)})
                               >= n \div 2 + 1
            IN DiffAt(g, geom, km)

\* C7 as stated: the recorded delta is the median of the differences of the
\* stations where both samples are valid, for 1, 2 or 3 such stations, and 0
\* when there is none.
C7_Original ==
    (pc = "done" /\ "decision" \in ran[1])
    => features[1].properties["de"] = Round2(MedianDiff(mnt, features[1].geometry))

\* C7 amended: a station contributes |elev_a - elev_b| only when both samples
\* are valid; the recorded delta is, rounded to 2 decimals, the middle one of
\* three contributed differences, the larger of two, the single one, and 0
\* when no station contributes.
C7_UpperMedian ==
    (pc = "done" /\ "decision" \in ran[1])
    => features[1].properties["de"] = Round2(UpperMedianDiff(mnt, features[1].geometry))

C7_Witness ==
    /\ pc = "done"
    /\ "decision" \in ran[1]
    /\ LET S == Contributing(mnt, features[1].geometry)
       IN /\ Cardinality(S) = 2
          /\ \E j, k \in S : DiffAt(mnt, features[1].geometry, j)
                                < DiffAt(mnt, features[1].geometry, k)
    /\ features[1].properties["de"] = Round2(3 * MmPerMetre + 4)

\* C6: read_elev(x, y) gives no reading exactly when the point is outside the
\* bounds of the grid, or its pixel is outside the array, or the sample is the
\* no-data sentinel, or the sample is < -100 or > 5000; otherwise it gives the
\* sample (so also for a sample of exactly -100 or exactly 5000).
C6_ReadElev ==
    query.asked
    => LET g == mnt
           x == query.x
           y == query.y
           outside == \/ x < g.left \/ x > g.left + g.width * g.res
                      \/ y > g.top \/ y < g.top - g.height * g.res
           row == (g.top - y) \div g.res
           col == (x - g.left) \div g.res
           offArray == row \notin 0..(g.height - 1) \/ col \notin 0..(g.width - 1)
           sample == g.data[row][col]
           noReading ==
               \/ outside
               \/ offArray
               \/ g.nodata # None /\ sample = g.nodata[1]
               \/ sample < -100 * MmPerMetre
               \/ sample > 5000 * MmPerMetre
       IN IF noReading THEN query.result = None ELSE query.result = Some(sample)

C6_Witness ==
    /\ query.asked
    /\ query.result = Some(-100 * MmPerMetre)

(***************************************************************************)
(* Properties of the break mask (SpecMask)                                 *)
(***************************************************************************)
\* C9: in every written block the mask is 1 exactly where the slope is
\* strictly greater than the threshold and 0 elsewhere (0 where the slope
\* equals the threshold); hence the mask of the higher threshold is included
\* in the mask of the lower one.
C9_MaskIsStrictThreshold ==
    \A b \in 1..Len(ruptures) : \A px \in DOMAIN pente[b] :
        /\ ruptures[b][px] = (IF pente[b][px] > 1000 * seuil THEN 1 ELSE 0)
        /\ ruptures2[b][px] = (IF pente[b][px] > 1000 * seuil2 THEN 1 ELSE 0)
        /\ ruptures2[b][px] = 1 => ruptures[b][px] = 1

C9_Witness ==
    /\ seuil < seuil2
    /\ Len(ruptures) = Len(pente)
    /\ \E b \in 1..Len(ruptures) : \E px, py \in DOMAIN pente[b] :
          /\ pente[b][px] = 1000 * seuil
          /\ ruptures[b][px] = 0
          /\ ruptures[b][py] = 1
          /\ ruptures2[b][py] = 0

Windows(g) == 1..NBlocks(g)
Range(s) == { s[k] : k \in DOMAIN s }

\* the parts of the closing of everything traced in a padded window: what
\* closing gives when fragments less than two radii apart are closed together
ClosedTogether(g, k) ==
    Range(Components(Closing(MaskCells(g, PadWindow(BlockWindow(g, k), PAD_VECT)))))

\* C11: once the workers have returned without fault, every part of the
\* closing of a window's traced fragments whose area lies between MIN_AREA
\* and MAX_AREA has survived the area filter: the fragments it is made of
\* are covered by the polygons returned, also when each of them is below
\* MIN_AREA.
C11_ClosingThenFilter ==
    (pcMain = "fusion" /\ failure = NoFault) =>
        \A k \in Windows(fileRuptures[1]) :
            \A part \in ClosedTogether(fileRuptures[1], k) :
                (Area(part, fileRuptures[1]) >= MIN_AREA
                    /\ Area(part, fileRuptures[1]) <= MAX_AREA)
                => part \cap MaskCells(fileRuptures[1],
                                       PadWindow(BlockWindow(fileRuptures[1], k), PAD_VECT))
                      \subseteq Cover(allPolygons)

\* C12: whatever fails in one block of a batch (the read of its padded
\* window, the tracing, or the handling of one polygon), the worker of the
\* batch still returns the polygons of every other block of the batch.
C12_BlockFailureIsolated ==
    \A b \in DOMAIN tasks :
        tasks[b].state = "done" =>
            \A k \in BatchFirst(b)..BatchLast(fileRuptures[1], b) :
                k # failure.window =>
                    Range(WindowPolygons(fileRuptures[1], BlockWindow(fileRuptures[1], k)))
                        \subseteq Range(tasks[b].result)

\* the batch in which the failure of this run escapes the per-polygon try
FailedBatches ==
    { b \in DOMAIN tasks :
        EscapesPolygonTry(failure)
            /\ failure.window \in BatchFirst(b)..BatchLast(fileRuptures[1], b) }

\* C13: a batch whose processing fails as a whole returns the empty list;
\* every other batch returns what it returns in a run without failure, these
\* polygons are what reaches the merger, and the failure does not end the
\* program: the stage goes on to the union and the export.
C13_BatchFailureNotFatal ==
    /\ \A b \in DOMAIN tasks :
          (pcMain \in {"pool", "fusion"} /\ tasks[b].state = "done" /\ failure.kind # "poly") =>
              tasks[b].result =
                  IF b \in FailedBatches THEN <<>>
                  ELSE BatchKept(fileRuptures[1], BatchFirst(b),
                                 BatchLast(fileRuptures[1], b), NoFault)
    /\ (pcMain = "fusion" /\ failure.kind # "poly") =>
          Range(allPolygons) =
              UNION { Range(BatchKept(fileRuptures[1], BatchFirst(b),
                                      BatchLast(fileRuptures[1], b), NoFault)) :
                      b \in DOMAIN tasks \ FailedBatches }
    /\ (pcMain = "crash" /\ tasks # <<>>) => unions = "fallback"

\* one of two batches has failed on a read, the polygon of the other batch
\* has been merged and exported
C13_Witness ==
    /\ pcMain = "enrichissement"
    /\ failure = [kind |-> "read", window |-> 2, index |-> 0]
    /\ Len(tasks) = 2
    /\ FailedBatches = {1}
    /\ tasks[1].result = <<>>
    /\ tasks[2].result # <<>>
    /\ fileGeojson # None
    /\ Len(fileGeojson[1].features) = 1
    /\ count = 1

\* what the windows of the mask g give, window by window, whatever the batch
\* they are in and whatever the order of the batches
PolygonsOfMask(g) ==
    UNION { Range(WindowPolygons(g, BlockWindow(g, k))) : k \in Windows(g) }

\* C14: in a run without failure the set of polygons handed to the merger
\* depends on the mask alone, not on the order in which the batches were
\* started and completed nor on the number of workers, and so does the
\* merged geometry; a batch that is done holds the polygons of its own
\* windows whatever the state of the other batches.
C14_OrderIndependent ==
    failure = NoFault =>
        /\ \A b \in DOMAIN tasks :
              (pcMain = "pool" /\ tasks[b].state = "done") =>
                  Range(tasks[b].result) =
                      UNION { Range(WindowPolygons(fileRuptures[1],
                                                   BlockWindow(fileRuptures[1], k))) :
                              k \in BatchFirst(b)..BatchLast(fileRuptures[1], b) }
        /\ pcMain = "fusion" => Range(allPolygons) = PolygonsOfMask(fileRuptures[1])
        /\ (pcMain = "export" /\ unions = "ok") =>
              Range(finalGeoms) = Range(Components(UNION PolygonsOfMask(fileRuptures[1])))

\* two workers: the second batch is done and holds its polygon while the
\* first one, submitted before it, is still running
C14_Witness ==
    /\ pcMain = "pool"
    /\ cpu = 2
    /\ failure = NoFault
    /\ Len(tasks) = 2
    /\ tasks[1].state = "running"
    /\ tasks[2].state = "done"
    /\ Range(tasks[2].result) # {}

\* C15: when the bulk union has raised, the merger does not end the program:
\* it unions the polygons by chunks and the geometry it obtains covers the
\* same region, with the same area, as the polygons it was given.
C15_FallbackUnion ==
    unions \in {"bulk", "fallback"} =>
        /\ pcMain # "crash"
        /\ Cover(finalGeoms) = Cover(allPolygons)
        /\ \A p, q \in Range(finalGeoms) : p # q => p \cap q = {}

\* C16: when the workers have returned no polygon, the merger and the
\* exporter complete and leave a feature collection file whose feature list
\* is empty, and the stages that follow do not end the program.
C16_EmptyCollectionWritten ==
    (tasks # <<>> /\ allPolygons = <<>>
        /\ pcMain \in {"enrichissement", "classification", "emprise", "fini", "crash"}) =>
        /\ pcMain # "crash"
        /\ fileGeojson = Some([features |-> <<>>])

\* the merged polygons the export loop has gone through whose area, after
\* the final simplification, lies in [MIN_AREA, MAX_AREA]
ExportedSoFar ==
    { j \in 1..pos :
        /\ Area(Simplify(finalGeoms[j]), fileRuptures[1]) >= MIN_AREA
        /\ Area(Simplify(finalGeoms[j]), fileRuptures[1]) <= MAX_AREA }

C18_MissingInputSkips ==
    /\ pcMain = "crash" => (tasks # <<>> /\ unions = "fallback")
    /\ (fileMnt = None /\ filePente # None) => filePente = Some(OldPente)

\* the artifacts a run can find on disk when it starts
CachedRuptures == {None} \cup { Some(m) : m \in MaskInputs }
CachedGeojson == {None, Some(OldGeojson)}

\* C19 as stated: without an elevation raster no break mask, no feature
\* collection and no classification is computed or written in the run,
\* whatever else is on disk.
C19_Original ==
    fileMnt = None =>
        /\ fileRuptures \in CachedRuptures
        /\ fileGeojson \in CachedGeojson
        /\ pcMain = "emprise" => (opened = {} /\ written = {})

\* C19: without an elevation raster the slope grid is not computed and the
\* classification opens and writes nothing; a break mask is computed only
\* from a slope grid that is on disk and a feature collection only from a
\* break mask; with neither slope grid nor break mask the run ends in the
\* break-mask stage and has written no file.
C19_NoMntStopsAtCache ==
    fileMnt = None =>
        /\ filePente \in {None, Some(OldPente)}
        /\ pcMain = "emprise" => (opened = {} /\ written = {})
        /\ fileRuptures \notin CachedRuptures => filePente # None
        /\ fileGeojson \notin CachedGeojson => fileRuptures # None
        /\ (filePente = None /\ fileRuptures = None) =>
              /\ fileGeojson \in CachedGeojson
              /\ fileDashboard = None
              /\ pcMain \in {"pente", "ruptures", "crash"}

\* no elevation raster, a slope grid on disk: the break mask was computed
\* from it, its polygons were exported and the run has ended
C19_Witness ==
    /\ pcMain = "fini"
    /\ fileMnt = None
    /\ filePente = Some(OldPente)
    /\ fileRuptures = Some(RupturesOf(OldPente))
    /\ tasks # <<>>
    /\ fileGeojson # None
    /\ fileGeojson[1].features # <<>>

\* the handles open on a file, and those among them that can write
HandlesOn(file) == { h \in handles : h.file = file }
Writers(file) == { h \in HandlesOn(file) : h.mode # "r" }

\* C20: each output file has at most one open writer; while a worker is
\* running the mask is open only for reading, no two of its handles belong
\* to the same process, every running worker has its own, and nothing
\* writes the mask or the feature collection.
C20_SingleWriter ==
    /\ \A file \in {"pente", "ruptures", "geojson"} : Cardinality(Writers(file)) <= 1
    /\ Running # {} =>
          /\ Writers("ruptures") = {}
          /\ Writers("geojson") = {}
          /\ \A h1, h2 \in HandlesOn("ruptures") : h1.owner = h2.owner => h1 = h2
          /\ \A b \in Running : \E h \in HandlesOn("ruptures") : h.owner = b /\ h.mode = "r"

\* two workers run at once, each with its handle on the mask
C20_Witness ==
    /\ pcMain = "pool"
    /\ Cardinality(Running) = 2
    /\ Cardinality(HandlesOn("ruptures")) = 2

WholeGridSlope(g) ==
    [row \in 0..(g.height - 1) |-> [col \in 0..(g.width - 1) |->
        Hypot(SobelAt(g.data, g.height, g.width, row, col, 1),
              SobelAt(g.data, g.height, g.width, row, col, 0))]]

\* the same on the raster read as one window with its margin of PAD_CALC
\* pixels, a boundless read
PaddedGridSlope(g) ==
    SlopeBlock(g, [col_off |-> 0, row_off |-> 0, width |-> g.width, height |-> g.height])

\* the pixels with no neighbour outside the raster
Interior(g) == (1..(g.height - 2)) \X (1..(g.width - 2))

\* C22 as stated: every slope value written, those on the outer border of
\* the raster included, is the value the gradient operator gives on the
\* whole raster.
C22_Original ==
    filePente # None =>
        \A row \in DOMAIN filePente[1].data : \A col \in 0..(fileMnt[1].width - 1) :
            filePente[1].data[row][col] = WholeGridSlope(fileMnt[1])[row][col]

\* C22: every slope value written is the value obtained from the whole
\* raster read as one window with its margin, whatever the height of the
\* strips; for a pixel that is not on the outer border of the raster it is
\* the value the gradient operator gives on the raster's own samples.
C22_TilingTransparent ==
    filePente # None =>
        \A row \in DOMAIN filePente[1].data : \A col \in 0..(fileMnt[1].width - 1) :
            /\ filePente[1].data[row][col] = PaddedGridSlope(fileMnt[1])[row][col]
            /\ <<row, col>> \in Interior(fileMnt[1]) =>
                  filePente[1].data[row][col] = WholeGridSlope(fileMnt[1])[row][col]

\* a raster cut in strips of 2 rows has been written whole; the two interior
\* pixels on either side of the border between the strips carry a slope
C22_Witness ==
    /\ pcMain = "ruptures"
    /\ fileMnt[1].blockysize = 2
    /\ filePente # None
    /\ filePente[1].data[1][1] > 0
    /\ filePente[1].data[2][1] > 0

\* the rows of a window
WindowRows(win) == win.row_off..(win.row_off + win.height - 1)

\* C23: each iteration of the block loop writes one block of the height and
\* width of the next window of the plan at that window's rows, none of which
\* was written before, and leaves the rows written before as they are; the
\* loop ends after the last window of the plan, when every row of the
\* output has been written, each one once.
C23_BlockCoverage ==
    [][ /\ (pcMain = "pente_blocs" /\ pcMain' = "pente_blocs") =>
              LET win == BlockWindow(fileMnt[1], bloc + 1)
                  old == filePente[1].data
                  new == filePente'[1].data
              IN /\ bloc' = bloc + 1
                 /\ bloc + 1 <= NBlocks(fileMnt[1])
                 /\ WindowRows(win) \cap DOMAIN old = {}
                 /\ DOMAIN new = DOMAIN old \cup WindowRows(win)
                 /\ \A row \in DOMAIN old : new[row] = old[row]
                 /\ \A row \in WindowRows(win) : DOMAIN new[row] = 0..(win.width - 1)
                 /\ win.width = fileMnt[1].width
        /\ (pcMain = "pente_blocs" /\ pcMain' = "ruptures") =>
              /\ bloc = NBlocks(fileMnt[1])
              /\ DOMAIN filePente[1].data = 0..(fileMnt[1].height - 1)
              /\ filePente' = filePente
      ]_vars

\* a raster of 4 rows in strips of 3 rows: the block of 3 rows and the short
\* block of 1 row have been written and the stage has returned
C23_Witness ==
    /\ pcMain = "ruptures"
    /\ fileMnt[1].blockysize = 3
    /\ filePente # None
    /\ DOMAIN filePente[1].data = 0..3

\* the windows of batch b
BatchWindows(g, b) == BatchFirst(b)..BatchLast(g, b)

\* the worker of batch b has started and has not returned
WorkerBusy(b) == b \in DOMAIN tasks /\ tasks[b].state = "running"

\* C24: the batches handed to the pool are consecutive runs of at most
\* BATCH_SIZE windows and every window of the mask is in exactly one of
\* them; all_polygons is filled and a union is taken only when every batch
\* is done; and if no worker stays busy for ever, a stage whose batches are
\* with the pool reaches the union step.
C24_BatchingAndJoin ==
    /\ [](tasks # <<>> =>
            /\ Len(tasks) = NBatches(fileRuptures[1])
            /\ \A k \in Windows(fileRuptures[1]) :
                  Cardinality({ b \in DOMAIN tasks : k \in BatchWindows(fileRuptures[1], b) }) = 1
            /\ \A b \in DOMAIN tasks :
                  /\ BatchWindows(fileRuptures[1], b) \subseteq Windows(fileRuptures[1])
                  /\ Cardinality(BatchWindows(fileRuptures[1], b)) \in 1..BATCH_SIZE
                  /\ b > 1 => BatchFirst(b) = BatchLast(fileRuptures[1], b - 1) + 1
            /\ (pcMain # "pool" \/ allPolygons # <<>> \/ unions # "none") =>
                  \A b \in DOMAIN tasks : tasks[b].state = "done")
    /\ (\A b \in 1..NBatches(MaskColumn({})) : []<>~WorkerBusy(b))
          => ((pcMain = "pool") ~> (pcMain = "fusion"))

\* the union step is reached after two batches, of 50 and 2 windows
C24_Witness ==
    /\ pcMain = "fusion"
    /\ Len(tasks) = 2
    /\ Cardinality(BatchWindows(fileRuptures[1], 1)) = BATCH_SIZE
    /\ Cardinality(BatchWindows(fileRuptures[1], 2)) = 2
    /\ \A b \in DOMAIN tasks : tasks[b].state = "done"

(***************************************************************************)
(* The band of shapes labelled terrace                                     *)
(***************************************************************************)
\* 100 * pi * A < P^2 <= 400 * A, with pi taken as 355/113 as in GcScoreMilli
TerraceBand(geom) ==
    /\ 35500 * geom.area < 113 * geom.perim * geom.perim
    /\ geom.perim * geom.perim <= 400 * geom.area

C26_LabelsAgree ==
    \A k \in 1..Len(features) :
        Processed(k)
        => /\ features[k].properties["t"] = 1 <=> features[k].properties["c"] = "t"
           /\ features[k].properties["t"] = 0 <=> features[k].properties["c"] = "m"

(***************************************************************************)
(* The counters of the classifier (SpecClassif)                            *)
(***************************************************************************)
\* the features the loop has labelled terrace so far
LabelledTerrace ==
    { k \in 1..Len(features) : Processed(k) /\ features[k].properties["c"] = "t" }

\* C27: each feature the loop has gone through has added one to exactly one
\* of the terrace, wall and error counters, so their sum is the number of
\* features gone through and, at the end, the number of features; the sliver
\* counter never exceeds the wall counter; the terrace counter is the number
\* of features labelled c = 't'.
C27_CountersPartition ==
    /\ count_terrasse + count_mur + count_err = i - 1
    /\ pc = "done" => count_terrasse + count_mur + count_err = Len(features)
    /\ count_sliver <= count_mur
    /\ Cardinality(LabelledTerrace) = count_terrasse

\* the loop has finished two features, a sliver and a terrace
C27_Witness ==
    /\ pc = "done"
    /\ Len(features) = 2
    /\ count_sliver = 1
    /\ count_mur = 1
    /\ count_terrasse = 1
    /\ count_err = 0

(***************************************************************************)
(* The classifier on its own output (SpecRerun)                            *)
(***************************************************************************)
\* the number of slivers among the results of a run
CountSliver(results) == Cardinality({ k \in DOMAIN results : results[k].sliver })

\* C28: when the classifier of a second run, with the same elevation grid,
\* rewrites the collection that the first run's classifier wrote, the
\* collection is the one it read (same geometries, same c, t, gc, de), and
\* the counters of either run are those of one pass over the collection the
\* Exporter wrote.
C28_RerunIdempotent ==
    [][ (pcMain = "classification_boucle" /\ pcMain' = "emprise")
        => LET first == ClassifyAll(features2, mnt)
           IN /\ run = 2 => fileGeojson' = fileGeojson
              /\ fileGeojson'[1].features = ClassifiedFeatures(features2, first)
              /\ count_terrasse = CountOutcome(first, {"terrasse"})
              /\ count_mur = CountOutcome(first, {"mur"})
              /\ count_err = CountOutcome(first, {"err"})
              /\ count_sliver = CountSliver(first) ]_vars

\* the second run has rewritten a collection with a terrace and a sliver
C28_Witness ==
    /\ run = 2
    /\ pcMain = "emprise"
    /\ Len(features) = 2
    /\ features[1].properties["c"] = "t"
    /\ ran[2] = {"guard", "sliver"}
    /\ count_terrasse = 1
    /\ count_sliver = 1

(***************************************************************************)
(* The text of the streamed feature file (SpecStream)                      *)
(***************************************************************************)
\* the pieces between the header and the closing bracket: nothing, or
\* features with one separator between each two
FeaturesAndSeparators(body) ==
    \/ body = <<>>
    \/ /\ Len(body) % 2 = 1
       /\ \A k \in DOMAIN body : body[k] = (IF k % 2 = 1 THEN "feature" ELSE "sep")

\* the number of features in the text
FeatureCount(text) == Cardinality({ k \in DOMAIN text : text[k] = "feature" })

\* C29: when the export has returned, whatever polygons were filtered out or
\* skipped because their export raised, the file is the header, the written
\* features with exactly one separator between each two and none before the
\* first or after the last, then the closing bracket, and it holds
\* count_saved features.
C29_StreamWellFormed ==
    (pcMain = "enrichissement" /\ fileGeojson # None) =>
        LET text == fileGeojson[1].text
        IN /\ Len(text) >= 2
           /\ text[1] = "header"
           /\ text[Len(text)] = "close"
           /\ FeaturesAndSeparators(SubSeq(text, 2, Len(text) - 1))
           /\ FeatureCount(text) = count
           /\ Len(fileGeojson[1].features) = count

(***************************************************************************)
(* The coordinates of the probe (SpecCrs)                                  *)
(***************************************************************************)
\* a ring of the written feature taken back to the working CRS (the inverse
\* of Project)
WorkingRing(coords) ==
    [k \in DOMAIN coords |-> <<(coords[k][1] - 5200000) \div 7,
                               (coords[k][2] - 44100000) \div 5>>]

\* the three stations of this bounding rectangle all give two readings on g
AllStationsRead(g, coords_mrr) == Len(ProbeDeltas(g, PrincipalAxis(coords_mrr))) = 3

\* C30: after the classifier has run on the exported collection, a feature
\* whose polygon lies on the grid, with its probe points at 5 working units
\* from the axis all on valid elevations, has been probed on the grid: the
\* points the classifier passed to read_elev gave readings, and de comes from
\* them.
C30_ProbeInGridCrs ==
    (pcMain = "emprise" /\ fileGeojson # None) =>
        \A k \in DOMAIN fileGeojson[1].features :
            LET f == fileGeojson[1].features[k]
            IN AllStationsRead(fileMnt[1], WorkingRing(f.geometry.mrr))
               => /\ ProbeDeltas(fileMnt[1], PrincipalAxis(f.geometry.mrr)) # <<>>
                  /\ f.properties["de"] =
                        Round2(ProbeDelta(ProbeDeltas(fileMnt[1],
                                   PrincipalAxis(WorkingRing(f.geometry.mrr)))))

=============================================================================
